---- MODULE Spec2Model ----
(***************************************************************************)
(* The image acquisition and deduplication pipeline of                     *)
(* nonebot-plugin-chobits: unit/image/__init__.py, class ImageProcessor.   *)
(*                                                                         *)
(* Byte buffers are sequences of integers 0..255; URLs, paths, file names  *)
(* and digests are strings.  The libraries the class calls (httpx, Pillow, *)
(* imagehash, hashlib, json, the file system) are the environment: an HTTP *)
(* response or the outcome of a write, a copy, a move or a removal is an   *)
(* input of the step that asks for it, and what the decoder does with a    *)
(* buffer is a function of the buffer.                                     *)
(***************************************************************************)
EXTENDS Integers, Sequences, FiniteSets, TLC

VARIABLES
    sniffData,      \* _identify_file_type_by_magic: the argument `data`
    sniffResult,    \* its return value; "pending" before the call returns
    infoData,       \* get_image_info: the argument `bytes_object`
    infoPc,         \* "idle", "pending" (called) or "done" (returned)
    infoResult,     \* the returned dict, None before the call returns
    infoRepairs,    \* calls of _fix_corrupted_image made by the call
    fPc,            \* _fetch_content_with_location: "idle", "call" (a level of
                    \* the recursion is about to run) or "done" (returned)
    fCaller,        \* who waits for the fetch: "user", "download" or "batch"
    fUrl,           \* the argument `url` of the current level
    fBudget,        \* the argument `max_redirects` of the current level
    fN,             \* `max_redirects` of the outermost call
    fRequests,      \* client.get calls made so far by this fetch
    fResult,        \* the value returned: the content or NoBytes
    fAllRedirect,   \* every response so far carried a Location header
    fLast,          \* the outcome of the latest client.get of this fetch
    disk,           \* the file system: path -> [content, mtime]
    folders,        \* the directories of the file system
    now,            \* the file system's clock
    writeFaults,    \* the open() and write() calls on images that raised
    dlPc,           \* download_image: "idle", "fetching" or "done"
    dlCaller,       \* who called download_image: "user" or "batch"
    dlUrl,          \* the argument `url`
    dlDir,          \* the argument `save_dir`
    dlFilename,     \* the argument `filename` ("" for None)
    dlResult,       \* the value returned (NoResult for None)
    dlLog,          \* the download_image calls of the user that returned,
                    \* oldest first
    bPc,            \* batch_download_from_api: "idle", "loop" (between two
                    \* attempts), "fetching", "downloading" or "done"
    cleaned_urls,   \* the local `cleaned_urls`
    count_per_api,  \* the argument `count_per_api`
    round_idx,      \* the loop variable `round_idx`
    api_idx,        \* the position of `api_url` in cleaned_urls, from 1
    img_url,        \* the local `img_url` of an attempt that downloads
    results,        \* the local `results`
    bAttempts,      \* the <<round_idx, position>> pairs whose loop body ran
    bContent,       \* the local `content` of the attempt (NoBytes for None)
    cacheFile,      \* the cache file: filename -> entry (<<>>: absent, empty
                    \* or unreadable, all of which load as {})
    dPc,            \* deduplicate_by_phash_optimized: "idle", "scan" (the
                    \* pool is running), "done" or "aborted" (it raised to
                    \* its caller)
    dDir,           \* the argument `directory`
    dWorkersArg,    \* the argument `max_workers`
    max_workers,    \* the local `max_workers` after line 816
    cache,          \* the local `cache`
    dFiles,         \* the local `files` of line 819
    pending,        \* the submitted files no worker has taken yet
    returned,       \* the futures that are done and that as_completed has
                    \* not yet handed to the main thread: [filename,
                    \* raised, entry]
    dMain,          \* the main thread of the run: "collect" (in the loop
                    \* of line 902), "shutdown" (it left the loop with a
                    \* worker's exception and waits for the pool at the end
                    \* of the with block), "idle" outside a run
    running,        \* the files inside process_file, each with the mtime
                    \* it read
    phash_results,  \* the local `phash_results`, in insertion order
    decodes,        \* get_image_info calls made by the current run
    envSteps,       \* the changes made to the directory by others
    dLog,           \* the runs that returned, oldest first
    fmPc,           \* the file management methods: "idle", "correcting"
                    \* (inside the loop of batch_correct_extensions) or
                    \* "classifying" (inside the loop of
                    \* classify_image_by_orientation)
    fmArgs,         \* the arguments of the call whose loop is running
    fmQueue,        \* the file names the loop has not reached yet
    fmLog           \* the file management calls that returned or raised,
                    \* oldest first

sniffVars == <<sniffData, sniffResult>>
infoVars == <<infoPc, infoData, infoResult, infoRepairs>>
fetchVars ==
    <<fPc, fCaller, fUrl, fBudget, fN, fRequests, fResult, fAllRedirect, fLast>>
diskVars == <<disk, folders, now, writeFaults>>
dlVars == <<dlPc, dlCaller, dlUrl, dlDir, dlFilename, dlResult, dlLog>>
batchVars ==
    <<bPc, cleaned_urls, count_per_api, round_idx, api_idx, img_url, results,
      bAttempts, bContent>>
dedupVars ==
    <<cacheFile, dPc, dDir, dWorkersArg, max_workers, cache, dFiles, pending,
      running, returned, dMain, phash_results, decodes, envSteps, dLog>>
filesVars == <<fmPc, fmArgs, fmQueue, fmLog>>
vars ==
    <<sniffVars, infoVars, fetchVars, diskVars, dlVars, batchVars, dedupVars, filesVars>>

None == "None"
\* Python's None where a bytes value is expected (no buffer holds -1)
NoBytes == <<-1>>

(***************************************************************************)
(* Byte strings                                                            *)
(***************************************************************************)
\* bytes.startswith(prefix)
StartsWith(data, prefix) ==
    /\ Len(prefix) <= Len(data)
    /\ \A i \in 1..Len(prefix) : data[i] = prefix[i]

\* data[lo:hi] of Python (0-based, hi exclusive, clipped to the buffer)
Slice(data, lo, hi) ==
    LET h == IF hi < Len(data) THEN hi ELSE Len(data)
    IN  IF lo >= h THEN <<>> ELSE SubSeq(data, lo + 1, h)

(***************************************************************************)
(* Content sniffer                                                         *)
(***************************************************************************)
FILE_TYPE_AVI == "avi"
FILE_TYPE_WAV == "wav"
FILE_TYPE_WEBP == "webp"

\* MAGIC_NUMBERS: (signature, type) in the order of the source
MAGIC_NUMBERS ==
    <<
       <<<<80, 75, 3, 4>>, "zip">>,
       <<<<80, 75, 5, 6>>, "zip">>,
       <<<<80, 75, 7, 8>>, "zip">>,
       <<<<82, 97, 114, 33, 26, 7, 0>>, "rar">>,
       <<<<82, 97, 114, 33, 26, 7, 1, 0>>, "rar">>,
       <<<<55, 122, 188, 175, 39, 28>>, "7z">>,
       <<<<37, 80, 68, 70>>, "pdf">>,
       <<<<77, 90>>, "exe">>,
       <<<<127, 69, 76, 70>>, "elf">>,
       <<<<0, 0, 0, 28, 102, 116, 121, 112, 97, 118, 105, 102>>, "avif">>,
       <<<<0, 0, 0, 24, 102, 116, 121, 112>>, "mp4">>,
       <<<<0, 0, 0, 32, 102, 116, 121, 112>>, "mp4">>,
       <<<<82, 73, 70, 70>>, "avi">>,
       <<<<102, 116, 121, 112, 113, 116>>, "mov">>,
       <<<<109, 111, 111, 118>>, "mov">>,
       <<<<102, 114, 101, 101>>, "mov">>,
       <<<<26, 69, 223, 163>>, "mkv">>,
       <<<<102, 76, 97, 67>>, "flac">>,
       <<<<73, 68, 51>>, "mp3">>,
       <<<<82, 73, 70, 70>>, "wav">>,
       <<<<82, 73, 70, 70>>, "webp">>,
       <<<<137, 80, 78, 71>>, "png">>,
       <<<<255, 216, 255>>, "jpeg">>,
       <<<<71, 73, 70, 56, 57, 97>>, "gif">>,
       <<<<71, 73, 70, 56, 55, 97>>, "gif">>,
       <<<<66, 77>>, "bmp">>,
       <<<<73, 73, 42, 0>>, "tiff">>,
       <<<<77, 77, 0, 42>>, "tiff">>,
       <<<<56, 66, 80, 83>>, "psd">>,
       <<<<0, 0, 1, 0>>, "ico">>,
       <<<<208, 207, 17, 224, 161, 177, 26, 225>>, "doc">>,
       <<<<60, 33, 68, 79, 67, 84, 89, 80>>, "html">>,
       <<<<60, 33, 100, 111, 99, 116, 121, 112, 101>>, "html">>,
       <<<<35, 33, 47, 117, 115, 114, 47, 98, 105, 110, 47, 101, 110, 118, 32, 112, 121, 116, 104, 111, 110>>, "py">>,
       <<<<35, 33, 47, 117, 115, 114, 47, 98, 105, 110, 47, 112, 121, 116, 104, 111, 110>>, "py">>,
       <<<<35, 33, 47, 98, 105, 110, 47, 98, 97, 115, 104>>, "sh">>,
       <<<<35, 33, 47, 98, 105, 110, 47, 115, 104>>, "sh">>,
       <<<<35, 33, 47, 117, 115, 114, 47, 98, 105, 110, 47, 112, 101, 114, 108>>, "pl">>,
       <<<<60, 63, 112, 104, 112>>, "php">>,
       <<<<35, 105, 110, 99, 108, 117, 100, 101, 32, 60>>, "cpp">>,
       <<<<35, 33>>, "pl">>,
       <<<<35, 32>>, "sh">>,
       <<<<35, 105>>, "php">>,
       <<<<42, 42, 42>>, "cpp">>,
       <<<<10>>, "py">>
    >>

RIFF == <<82, 73, 70, 70>>
AVI_ == <<65, 86, 73, 32>>
WAVE == <<87, 65, 86, 69>>
WEBP == <<87, 69, 66, 80>>

\* the generic loop: the first entry whose signature is a prefix of data
FirstMagicMatch(data) ==
    LET hits == { i \in 1..Len(MAGIC_NUMBERS) :
                    /\ Len(MAGIC_NUMBERS[i][1]) <= Len(data)
                    /\ StartsWith(data, MAGIC_NUMBERS[i][1]) }
    IN  IF hits = {} THEN None
        ELSE MAGIC_NUMBERS[CHOOSE i \in hits : \A j \in hits : i <= j][2]

\* the RIFF special case: None when it does not decide
RiffSubtype(data) ==
    IF StartsWith(data, RIFF) /\ Len(data) >= 12
    THEN LET riff_type == Slice(data, 8, 12)
         IN  IF riff_type = AVI_ THEN FILE_TYPE_AVI
             ELSE IF riff_type = WAVE THEN FILE_TYPE_WAV
             ELSE IF riff_type = WEBP THEN FILE_TYPE_WEBP
             ELSE None
    ELSE None

\* a sniffer in which the last matching entry of the table wins
IdentifyLastMatch(data) ==
    LET hits == { i \in 1..Len(MAGIC_NUMBERS) : StartsWith(data, MAGIC_NUMBERS[i][1]) }
    IN  IF Len(data) < 2 THEN None
        ELSE IF RiffSubtype(data) # None THEN RiffSubtype(data)
        ELSE IF hits = {} THEN None
        ELSE MAGIC_NUMBERS[CHOOSE i \in hits : \A j \in hits : i >= j][2]

\* a sniffer without the RIFF special case, the generic table alone
IdentifyTableOnly(data) ==
    IF Len(data) < 2 THEN None ELSE FirstMagicMatch(data)

\* _identify_file_type_by_magic(data)
_identify_file_type_by_magic(data) ==
    IF Len(data) < 2 THEN None
    ELSE IF RiffSubtype(data) # None THEN RiffSubtype(data)
    ELSE FirstMagicMatch(data)

(***************************************************************************)
(* hashlib.md5, as a digest of four bytes: two words of sixteen bits, each *)
(* the buffer read as a number whose digits are its bytes counted from 1,  *)
(* in the bases 257 and 263 modulo the primes 65521 and 65519.  Buffers of *)
(* different length or content get different digests on all the buffers    *)
(* the scenarios use; the digest is printed as eight hexadecimal digits.   *)
(***************************************************************************)
RECURSIVE DigestWord(_, _, _, _)
DigestWord(data, n, base, modulus) ==
    IF n = 0 THEN 0
    ELSE (DigestWord(data, n - 1, base, modulus) * base + data[n] + 1) % modulus

\* the bytes of a word of sixteen bits
WordBytes(word) == <<word \div 256, word % 256>>

\* md5(bytes_object).digest()
md5(data) ==
    WordBytes(DigestWord(data, Len(data), 257, 65521))
        \o WordBytes(DigestWord(data, Len(data), 263, 65519))

HexDigits == <<"0", "1", "2", "3", "4", "5", "6", "7",
               "8", "9", "a", "b", "c", "d", "e", "f">>

\* two lowercase hexadecimal digits
HexByte(n) == HexDigits[(n \div 16) + 1] \o HexDigits[(n % 16) + 1]

\* hexdigest(): lowercase hexadecimal digits
hexdigest(digest) ==
    HexByte(digest[1]) \o HexByte(digest[2]) \o HexByte(digest[3]) \o HexByte(digest[4])

UpperChar(c) ==
    CASE c = "a" -> "A" [] c = "b" -> "B" [] c = "c" -> "C"
      [] c = "d" -> "D" [] c = "e" -> "E" [] c = "f" -> "F"
      [] OTHER -> c

\* str.upper()
RECURSIVE upper(_)
upper(s) == IF s = "" THEN "" ELSE UpperChar(Head(s)) \o upper(Tail(s))

\* md5(bytes_object).hexdigest().upper()
md5_upper(data) == upper(hexdigest(md5(data)))

(***************************************************************************)
(* Pillow and imagehash.  What the decoder does with a buffer is decided   *)
(* by the buffer alone: the signature gives the format Pillow reports and  *)
(* the byte that follows the signature selects the course of the decode    *)
(* (the remaining bytes are payload that changes the size only).           *)
(*   stage   "ok": decoded and hashed; "open": Image.open raised;          *)
(*           "load": a call after file_type was assigned raised            *)
(*           (re-open after verify, load, imagehash.phash)                 *)
(*   exc     the exception: "os" (UnidentifiedImageError / IOError),       *)
(*           "exif" ("Corrupt EXIF data ..."), "palette" ("Palette images  *)
(*           with Transparency ..."), "other" (any other Exception)        *)
(***************************************************************************)
PNG_SIG == <<137, 80, 78, 71>>
JPEG_SIG == <<255, 216, 255>>
GIF_SIG == <<71, 73, 70, 56, 57, 97>>
BMP_SIG == <<66, 77>>
ICO_SIG == <<0, 0, 1, 0>>

DecoderFormats ==
    << <<PNG_SIG, "PNG">>, <<JPEG_SIG, "JPEG">>, <<GIF_SIG, "GIF">>, <<BMP_SIG, "BMP">>,
       <<ICO_SIG, "ICO">> >>

DecoderEntry(data) ==
    LET hits == { i \in 1..Len(DecoderFormats) : StartsWith(data, DecoderFormats[i][1]) }
    IN  IF hits = {} THEN 0 ELSE CHOOSE i \in hits : TRUE

\* the byte after the signature, 0 when there is none
CourseByte(data) ==
    LET e == DecoderEntry(data)
    IN  IF e = 0 \/ Len(data) <= Len(DecoderFormats[e][1]) THEN 0
        ELSE data[Len(DecoderFormats[e][1]) + 1]

Decoded(fmt, p, conv, w, h, ph) ==
    [stage |-> "ok", exc |-> "", format |-> fmt, mode_p |-> p, convert_ok |-> conv,
     width |-> w, height |-> h, phash |-> ph]

Raised(at, e, fmt) ==
    [stage |-> at, exc |-> e, format |-> fmt, mode_p |-> FALSE, convert_ok |-> FALSE,
     width |-> 0, height |-> 0, phash |-> ""]

\* the course of the decode of a buffer of decoder entry e (0: no decoder
\* knows the signature), reported format fmt and course byte c
PilCourse(e, fmt, c) ==
    IF e = 0 THEN Raised("open", "os", "")
    ELSE CASE c = 1 -> Decoded(fmt, FALSE, FALSE, 2, 1, "H1")
           [] c = 2 -> Decoded(fmt, FALSE, FALSE, 1, 2, "H2")
           [] c = 3 -> Decoded(fmt, TRUE, TRUE, 2, 2, "H1")
           [] c = 4 -> Decoded(fmt, TRUE, FALSE, 2, 1, "H2")
           [] c = 5 -> Decoded("MPO", FALSE, FALSE, 2, 1, "H3")
           [] c = 6 -> Raised("load", "os", fmt)
           [] c = 7 -> Raised("load", "exif", fmt)
           [] c = 8 -> Raised("load", "palette", fmt)
           [] c = 9 -> Raised("load", "exif", fmt)
           [] c = 10 -> Raised("load", "other", fmt)
           [] c = 11 -> Raised("open", "exif", fmt)
           [] c = 12 -> Raised("load", "exif", fmt)
           [] c = 14 -> Decoded(fmt, FALSE, FALSE, 1, 1, "H4")
           [] OTHER -> Raised("open", "os", "")

DecoderFormat(e) == IF e = 0 THEN "" ELSE DecoderFormats[e][2]

\* Image.open ... imagehash.phash on the buffer
PilOutcome(data) ==
    PilCourse(DecoderEntry(data), DecoderFormat(DecoderEntry(data)), CourseByte(data))

\* the re-encoding of a buffer of signature sig and course byte c
FixCourse(sig, c) ==
    CASE c = 7 -> sig \o <<1>>
      [] c = 8 -> sig \o <<8>>
      [] c = 12 -> sig \o <<6>>
      [] OTHER -> NoBytes

\* _fix_corrupted_image(image_bytes): the re-encoded bytes, or NoBytes.  It
\* begins with the Image.open of get_image_info (line 1017): where that one
\* raises, this one raises too and None is returned (lines 1059-1061).  A
\* re-encoding keeps the signature and drops the payload; the course of the
\* re-encoded buffer is the decoder's again.
_fix_corrupted_image(image_bytes) ==
    IF DecoderEntry(image_bytes) = 0 \/ PilOutcome(image_bytes).stage = "open"
    THEN NoBytes
    ELSE FixCourse(DecoderFormats[DecoderEntry(image_bytes)][1], CourseByte(image_bytes))

\* str.lower() on the formats the decoder reports
lower(fmt) ==
    CASE fmt = "PNG" -> "png" [] fmt = "JPEG" -> "jpeg" [] fmt = "GIF" -> "gif"
      [] fmt = "BMP" -> "bmp" [] fmt = "MPO" -> "mpo" [] fmt = "ICO" -> "ico"
      [] OTHER -> fmt

\* the interpreter's recursion limit, in nested get_image_info calls
RecursionLimit == 4

(***************************************************************************)
(* get_image_info(bytes_object), at recursion depth `depth`.  The value is *)
(* [info |-> the returned dict, repairs |-> calls of _fix_corrupted_image].*)
(* orientation: "horizontal" is the source's "横向", "vertical" its "竖向". *)
(***************************************************************************)
\* line 350: file_type, assigned after open and mode conversion; a
\* converted image has no format
decoder_file_type(o) ==
    IF o.stage = "open" THEN ""
    ELSE IF o.mode_p /\ o.convert_ok THEN ""
    ELSE lower(o.format)

\* lines 388-396: the dict returned when the decode raised
failed_info(bytes_object, file_type) ==
    [size |-> Len(bytes_object), md5 |-> md5_upper(bytes_object), phash |-> "",
     file_type |-> file_type, width |-> 0, height |-> 0, orientation |-> ""]

\* lines 369-371, 388-396: the dict returned when the decode succeeded
decoded_info(bytes_object, o) ==
    [size |-> Len(bytes_object), md5 |-> md5_upper(bytes_object), phash |-> o.phash,
     file_type |-> decoder_file_type(o), width |-> o.width, height |-> o.height,
     orientation |-> IF o.width > o.height THEN "horizontal" ELSE "vertical"]

\* line 377: the message of the exception names a known corruption
repairable(o) == o.exc \in {"exif", "palette"}

\* lines 380-383: the value of the recursive call, one more repair counted
repaired(r) == [info |-> r.info, repairs |-> r.repairs + 1]

RECURSIVE get_image_info_at(_, _)
\* the body of get_image_info given the decode outcome o of the buffer and
\* the bytes fixed_bytes a repair of it would return
get_image_info_body(bytes_object, o, fixed_bytes, depth) ==
    IF depth >= RecursionLimit
    THEN \* RecursionError: it leaves the innermost frames through the
         \* handlers of lines 384-386 and ends in a frame of these bytes
         \* whose file_type was assigned at line 350; that frame returns
         [info |-> failed_info(bytes_object, decoder_file_type(o)), repairs |-> 0]
    ELSE IF o.stage = "ok" THEN [info |-> decoded_info(bytes_object, o), repairs |-> 0]
    ELSE IF repairable(o) /\ fixed_bytes # NoBytes /\ fixed_bytes # <<>>
    THEN repaired(get_image_info_at(fixed_bytes, depth + 1))
    ELSE [info |-> failed_info(bytes_object, decoder_file_type(o)),
          repairs |-> IF repairable(o) THEN 1 ELSE 0]

get_image_info_at(bytes_object, depth) ==
    get_image_info_body(bytes_object, PilOutcome(bytes_object),
                        _fix_corrupted_image(bytes_object), depth)

get_image_info(bytes_object) == get_image_info_at(bytes_object, 0).info

(***************************************************************************)
(* URLs are strings.                                                       *)
(***************************************************************************)
\* str.startswith(prefix)
str_startswith(s, prefix) ==
    /\ Len(prefix) <= Len(s)
    /\ SubSeq(s, 1, Len(prefix)) = prefix

\* str.lstrip('/')
RECURSIVE lstrip_slash(_)
lstrip_slash(s) ==
    IF s # "" /\ Head(s) = "/" THEN lstrip_slash(Tail(s)) ELSE s

\* _add_https_if_missing(url)
_add_https_if_missing(url) ==
    IF ~(str_startswith(url, "http://") \/ str_startswith(url, "https://"))
    THEN "https://" \o lstrip_slash(url)
    ELSE url

\* EXTENSION_MAPPING.get(file_type, f".{file_type}"): the table maps every
\* type to "." + type, except jpeg
ExtensionFor(file_type) ==
    IF file_type = "jpeg" THEN ".jpg" ELSE "." \o file_type

\* os.path.join(directory, name): an absolute name stands alone, and no
\* separator follows an empty directory or one that ends with a separator
path_join(directory, name) ==
    IF name # "" /\ SubSeq(name, 1, 1) = "/" THEN name
    ELSE IF directory = "" \/ SubSeq(directory, Len(directory), Len(directory)) = "/"
    THEN directory \o name
    ELSE directory \o "/" \o name

\* str.rfind(c), counted from 1: 0 when c does not occur
rfind(s, c) ==
    IF \E i \in 1..Len(s) : SubSeq(s, i, i) = c
    THEN CHOOSE i \in 1..Len(s) :
            /\ SubSeq(s, i, i) = c
            /\ \A j \in (i + 1)..Len(s) : SubSeq(s, j, j) # c
    ELSE 0

\* str.rstrip('/')
RECURSIVE rstrip_slash(_)
rstrip_slash(s) ==
    IF s # "" /\ SubSeq(s, Len(s), Len(s)) = "/"
    THEN rstrip_slash(SubSeq(s, 1, Len(s) - 1))
    ELSE s

\* os.path.dirname(p): what stands before the last separator, without the
\* separators that end it unless it holds nothing else
dirname(p) ==
    IF rstrip_slash(SubSeq(p, 1, rfind(p, "/"))) = ""
    THEN SubSeq(p, 1, rfind(p, "/"))
    ELSE rstrip_slash(SubSeq(p, 1, rfind(p, "/")))

\* os.path.basename(p)
basename(p) == SubSeq(p, rfind(p, "/") + 1, Len(p))

\* os.makedirs(p, exist_ok=True): p and the directories above it exist
\* afterwards
RECURSIVE makedirs(_, _)
makedirs(dirs, p) ==
    IF rstrip_slash(p) = "" THEN dirs
    ELSE makedirs(dirs \cup {rstrip_slash(p)}, dirname(rstrip_slash(p)))

\* the directories a file system holding these files has
parents(files) == UNION { makedirs({}, dirname(q)) : q \in DOMAIN files }

(***************************************************************************)
(* Sniffer inputs: every table signature followed by a trailer, plus a few *)
(* buffers shorter than any signature.                                     *)
(***************************************************************************)
SignatureOf(i) == MAGIC_NUMBERS[i][1]
TypeOf(i) == MAGIC_NUMBERS[i][2]
Entries == 1..Len(MAGIC_NUMBERS)

\* what completes a signature to a longer signature of the table
Completions ==
    { SubSeq(SignatureOf(j), Len(SignatureOf(i)) + 1, Len(SignatureOf(j))) :
        <<i, j>> \in { p \in Entries \X Entries :
                         /\ Len(SignatureOf(p[2])) > Len(SignatureOf(p[1]))
                         /\ StartsWith(SignatureOf(p[2]), SignatureOf(p[1])) } }

RiffTails ==
    { <<0, 0, 0, 0>> \o sub \o rest :
        sub \in {AVI_, WAVE, WEBP, <<88, 88, 88, 88>>}, rest \in {<<>>, <<1, 2>>} }

Trailers == {<<>>, <<0>>, <<65, 66>>, <<1, 2, 3, 4, 5, 6, 7, 8, 9>>}
              \cup Completions \cup RiffTails

SniffInputs ==
    { SignatureOf(i) \o t : i \in Entries, t \in Trailers }
        \cup {<<>>, <<35>>, <<82, 73, 70>>}

SniffIdle ==
    /\ sniffData = <<>>
    /\ sniffResult = "idle"

InfoIdle ==
    /\ infoPc = "idle"
    /\ infoData = <<>>
    /\ infoResult = None
    /\ infoRepairs = 0

\* no request has been made yet
NoResponse == [raise |-> FALSE, status |-> 0, location |-> "", content |-> <<>>]

FetchIdle ==
    /\ fPc = "idle"
    /\ fCaller = "user"
    /\ fUrl = ""
    /\ fBudget = 0
    /\ fN = 0
    /\ fRequests = 0
    /\ fResult = NoBytes
    /\ fAllRedirect = TRUE
    /\ fLast = NoResponse

\* Python's None where download_image's dict is expected
NoResult == [ok |-> FALSE]

DiskEmpty ==
    /\ disk = <<>>
    /\ folders = {}
    /\ now = 1
    /\ writeFaults = 0

\* no deduplication run has been called
DedupAtRest ==
    /\ dPc = "idle"
    /\ dDir = ""
    /\ dWorkersArg = 0
    /\ max_workers = 0
    /\ cache = <<>>
    /\ dFiles = {}
    /\ pending = {}
    /\ running = {}
    /\ returned = {}
    /\ dMain = "idle"
    /\ phash_results = <<>>
    /\ decodes = 0
    /\ envSteps = 0
    /\ dLog = <<>>

DedupIdle ==
    /\ cacheFile = <<>>
    /\ DedupAtRest

BatchIdle ==
    /\ bPc = "idle"
    /\ cleaned_urls = <<>>
    /\ count_per_api = 0
    /\ round_idx = 0
    /\ api_idx = 1
    /\ img_url = ""
    /\ results = [success |-> 0, failed |-> 0, details |-> <<>>]
    /\ bAttempts = <<>>
    /\ bContent = NoBytes

DlIdle ==
    /\ dlPc = "idle"
    /\ dlCaller = "user"
    /\ dlUrl = ""
    /\ dlDir = ""
    /\ dlFilename = ""
    /\ dlResult = NoResult
    /\ dlLog = <<>>

\* no file management method has been called
FilesIdle ==
    /\ fmPc = "idle"
    /\ fmArgs = <<>>
    /\ fmQueue = {}
    /\ fmLog = <<>>

SniffInit ==
    /\ sniffData \in SniffInputs
    /\ sniffResult = "pending"
    /\ InfoIdle
    /\ FetchIdle
    /\ DiskEmpty
    /\ DlIdle
    /\ BatchIdle
    /\ DedupIdle
    /\ FilesIdle

SniffCall ==
    /\ sniffResult = "pending"
    /\ sniffResult' = _identify_file_type_by_magic(sniffData)
    /\ UNCHANGED <<sniffData, infoVars, fetchVars, diskVars, dlVars, batchVars, dedupVars, filesVars>>

SniffReturned == sniffResult \notin {"pending", "idle"}

\* the buffer is RIFF + 4 length bytes + a 4-byte subtype + anything
IsRiffWith(data, sub) ==
    /\ Len(data) >= 12
    /\ StartsWith(data, RIFF)
    /\ Slice(data, 8, 12) = sub

\* C6 as stated: a buffer that starts with an entry's signature classifies as
\* that entry's type, whatever follows the signature.
C6_EverySignatureClassifies ==
    SniffReturned =>
        \A i \in Entries :
            StartsWith(sniffData, SignatureOf(i)) => sniffResult = TypeOf(i)

\* C6 amended: a buffer of at least two bytes that starts with an entry's
\* signature classifies as that entry's type when no earlier entry of the
\* table is also a prefix of the buffer and the RIFF subtype rule does not
\* decide it.
C6_FirstMatchingEntryClassifies ==
    SniffReturned =>
        \A i \in Entries :
            ( /\ StartsWith(sniffData, SignatureOf(i))
              /\ Len(sniffData) >= 2
              /\ \A j \in 1..(i - 1) : ~StartsWith(sniffData, SignatureOf(j))
              /\ ~(\E sub \in {AVI_, WAVE, WEBP} : IsRiffWith(sniffData, sub)) )
            => sniffResult = TypeOf(i)

\* C6 witness: the two-byte signature "#!" followed by bytes that complete no
\* longer signature was classified by its own entry.
C6_Witness ==
    /\ SniffReturned
    /\ sniffData = <<35, 33, 65, 66>>
    /\ sniffResult = "pl"

\* C7: a RIFF container is classified by the subtype at bytes 8-12.
C7_RiffBySubtype ==
    SniffReturned =>
        /\ IsRiffWith(sniffData, WAVE) => sniffResult = FILE_TYPE_WAV
        /\ IsRiffWith(sniffData, WEBP) => sniffResult = FILE_TYPE_WEBP
        /\ IsRiffWith(sniffData, AVI_) => sniffResult = FILE_TYPE_AVI

\* C7 witness: a WAVE container with trailing bytes was classified as wav.
C7_Witness ==
    /\ SniffReturned
    /\ IsRiffWith(sniffData, WAVE)
    /\ Len(sniffData) > 12
    /\ sniffResult = FILE_TYPE_WAV

SniffNext == SniffCall
SpecSniff == SniffInit /\ [][SniffNext]_vars

(***************************************************************************)
(* Metadata extractor inputs: a decoder signature (or none), the byte that *)
(* selects the course of the decode, and a payload.                        *)
(***************************************************************************)
MaxPayload == 2
CourseBytes == 0..13

Payloads == { [i \in 1..n |-> 0] : n \in 0..MaxPayload }

InfoInputs ==
    { sig \o <<c>> \o pad :
        sig \in {PNG_SIG, JPEG_SIG, GIF_SIG, <<1, 2, 3>>}, c \in CourseBytes, pad \in Payloads }
        \cup {<<>>}

InfoInit ==
    /\ infoPc = "pending"
    /\ infoData \in InfoInputs
    /\ infoResult = None
    /\ infoRepairs = 0
    /\ SniffIdle
    /\ FetchIdle
    /\ DiskEmpty
    /\ DlIdle
    /\ BatchIdle
    /\ DedupIdle
    /\ FilesIdle

InfoCall ==
    /\ infoPc = "pending"
    /\ infoPc' = "done"
    /\ \E r \in {get_image_info_at(infoData, 0)} :
          /\ infoResult' = r.info
          /\ infoRepairs' = r.repairs
    /\ UNCHANGED <<infoData, sniffVars, fetchVars, diskVars, dlVars, batchVars, dedupVars, filesVars>>

InfoReturned == infoPc = "done"

\* the decode of the buffer raises and no repaired bytes are obtained for it
Undecodable(data) ==
    /\ PilOutcome(data).stage # "ok"
    /\ \/ PilOutcome(data).exc \notin {"exif", "palette"}
       \/ _fix_corrupted_image(data) = NoBytes

\* C8: on bytes that cannot be decoded and cannot be repaired the returned
\* record has empty file_type, zero width and height, empty phash and empty
\* orientation, at whatever step the decode failed.
C8_UndecodableGivesEmptyRecord ==
    (InfoReturned /\ Undecodable(infoData)) =>
        /\ infoResult.file_type = ""
        /\ infoResult.width = 0
        /\ infoResult.height = 0
        /\ infoResult.phash = ""
        /\ infoResult.orientation = ""

\* C9: one call of get_image_info makes at most one repair attempt.
C9_AtMostOneRepair ==
    InfoReturned => infoRepairs <= 1

\* C17: the returned record has the size and the uppercase hex digest of
\* the input buffer, decodable or not, repaired or not.
C17_SizeAndHashOfInput ==
    InfoReturned =>
        /\ infoResult.size = Len(infoData)
        /\ infoResult.md5 = md5_upper(infoData)

InfoNext == InfoCall
SpecInfo == InfoInit /\ [][InfoNext]_vars

(***************************************************************************)
(* Fetcher: _fetch_content_with_location, one action per level of the      *)
(* recursion.  The server's answer to a request is an input of the step.   *)
(***************************************************************************)
DEFAULT_MAX_REDIRECTS == 5
MaxRedirectsArg == 3

Urls == {"https://a", "//b", "c"}
Locations == {"//c", "http://a"}

JPEG_OK == JPEG_SIG \o <<1>>
JPEG_EXIF == JPEG_SIG \o <<7, 0>>
GARBAGE == <<1, 2, 3, 0>>
\* a multi-picture JPEG: the JPEG signature, reported by the decoder as MPO
JPEG_MPO == JPEG_SIG \o <<5>>

Bodies == {JPEG_OK, JPEG_EXIF, JPEG_MPO, GARBAGE}

\* what one client.get can produce: an exception (timeout, connection
\* error), or a response with a status, a Location header ("" when absent)
\* and a body; a server may send a Location along with status 200 and an
\* image as body
Responses ==
    { [raise |-> TRUE, status |-> 0, location |-> "", content |-> <<>>] }
      \cup { [raise |-> FALSE, status |-> 302, location |-> loc, content |-> <<>>] :
               loc \in Locations }
      \cup { [raise |-> FALSE, status |-> 200, location |-> loc, content |-> JPEG_OK] :
               loc \in Locations }
      \cup { [raise |-> FALSE, status |-> 200, location |-> "", content |-> b] :
               b \in Bodies }
      \cup { [raise |-> FALSE, status |-> st, location |-> "", content |-> <<>>] :
               st \in {302, 404} }

JSON_URL_OPEN == <<123, 34, 117, 114, 108, 34, 58, 34>>
JSON_URL_CLOSE == <<34, 125>>
JSON_EMPTY_OBJECT == <<123, 125>>

\* the bodies of the batch scenario: {"url":"//c"}, {}, <html>error, an
\* image, and an image that does not load
JSON_URL == JSON_URL_OPEN \o <<47, 47, 99>> \o JSON_URL_CLOSE
HTML_ERROR == <<60, 104, 116, 109, 108, 62, 101, 114, 114, 111, 114>>
JPEG_BAD == JPEG_SIG \o <<6>>
\* an icon: the decoder opens it, its signature is not of a raster type
ICO_OK == ICO_SIG \o <<1>>

BatchBodies == {JSON_URL, JSON_EMPTY_OBJECT, HTML_ERROR, JPEG_OK, JPEG_BAD, ICO_OK}

Response(raise, status, location, content) ==
    [raise |-> raise, status |-> status, location |-> location, content |-> content]

\* what the polled sources answer in the batch scenario
BatchResponses ==
    { Response(TRUE, 0, "", <<>>), Response(FALSE, 302, "//c", <<>>),
      Response(FALSE, 404, "", <<>>) }
      \cup { Response(FALSE, 200, "", b) : b \in BatchBodies }

\* what the image hosts answer in the batch scenario
BatchImageResponses ==
    { Response(TRUE, 0, "", <<>>), Response(FALSE, 302, "//c", <<>>),
      Response(FALSE, 200, "", JPEG_OK), Response(FALSE, 200, "", GARBAGE) }

\* a fetch that takes a Location for a redirect only when the status is not 200
IsRedirectUnlessOk(resp) ==
    ~resp.raise /\ resp.location # "" /\ resp.status # 200

\* line 280: `if location:`
IsRedirect(resp) == ~resp.raise /\ resp.location # ""

\* lines 286-294: what a level returns on an answer it does not follow
response_content(resp) ==
    IF ~resp.raise /\ resp.status = 200 THEN resp.content ELSE NoBytes

\* a fetch that hands its budget on unchanged
NextBudgetUnchanged(max_redirects) == max_redirects

\* the budget the next level of the recursion is called with (line 284)
NextBudget(max_redirects) == max_redirects - 1

\* the call _fetch_content_with_location(client, url, headers, timeout, n)
FetchBegin(caller, url, n) ==
    /\ fPc' = "call"
    /\ fCaller' = caller
    /\ fUrl' = url
    /\ fBudget' = n
    /\ fN' = n
    /\ fRequests' = 0
    /\ fResult' = NoBytes
    /\ fAllRedirect' = TRUE
    /\ fLast' = NoResponse

\* the caller has taken the value the fetch returned
FetchReset ==
    /\ fPc' = "idle"
    /\ fCaller' = "user"
    /\ fUrl' = ""
    /\ fBudget' = 0
    /\ fN' = 0
    /\ fRequests' = 0
    /\ fResult' = NoBytes
    /\ fAllRedirect' = TRUE
    /\ fLast' = NoResponse

\* lines 271-273: the budget is used up, no request is made
FetchExhausted ==
    /\ fPc = "call"
    /\ fBudget <= 0
    /\ fPc' = "done"
    /\ fResult' = NoBytes
    /\ UNCHANGED <<fCaller, fUrl, fBudget, fN, fRequests, fAllRedirect, fLast>>

\* lines 276-285: a request answered with a Location: the next level is
\* called with the normalised location
FetchRedirect(resp) ==
    /\ fPc = "call"
    /\ fBudget > 0
    /\ IsRedirect(resp)
    /\ fRequests' = fRequests + 1
    /\ fUrl' = _add_https_if_missing(resp.location)
    /\ fBudget' = NextBudget(fBudget)
    /\ fLast' = resp
    /\ UNCHANGED <<fPc, fCaller, fN, fResult, fAllRedirect>>

\* a level that asks again when its request raised, instead of returning
FetchReturnRetrying(resp) ==
    /\ fPc = "call"
    /\ fBudget > 0
    /\ ~IsRedirect(resp)
    /\ fRequests' = fRequests + 1
    /\ fAllRedirect' = FALSE
    /\ fPc' = IF resp.raise THEN "call" ELSE "done"
    /\ fResult' = response_content(resp)
    /\ fLast' = resp
    /\ UNCHANGED <<fCaller, fUrl, fBudget, fN>>

\* lines 276-277, 286-294: a request that raised or was answered without a
\* Location: the level returns
FetchReturn(resp) ==
    /\ fPc = "call"
    /\ fBudget > 0
    /\ ~IsRedirect(resp)
    /\ fRequests' = fRequests + 1
    /\ fAllRedirect' = FALSE
    /\ fPc' = "done"
    /\ fResult' = response_content(resp)
    /\ fLast' = resp
    /\ UNCHANGED <<fCaller, fUrl, fBudget, fN>>

FetchInit ==
    /\ fPc = "call"
    /\ fCaller = "user"
    /\ fUrl \in Urls
    /\ fBudget \in (0..MaxRedirectsArg) \cup {DEFAULT_MAX_REDIRECTS}
    /\ fN = fBudget
    /\ fRequests = 0
    /\ fResult = NoBytes
    /\ fAllRedirect = TRUE
    /\ fLast = NoResponse
    /\ SniffIdle
    /\ InfoIdle
    /\ DiskEmpty
    /\ DlIdle
    /\ BatchIdle
    /\ DedupIdle
    /\ FilesIdle

FetchUserExhausted ==
    /\ fCaller = "user"
    /\ FetchExhausted
    /\ UNCHANGED <<sniffVars, infoVars, diskVars, dlVars, batchVars, dedupVars, filesVars>>

FetchUserRedirect ==
    /\ fCaller = "user"
    /\ \E resp \in Responses : FetchRedirect(resp)
    /\ UNCHANGED <<sniffVars, infoVars, diskVars, dlVars, batchVars, dedupVars, filesVars>>

FetchUserReturn ==
    /\ fCaller = "user"
    /\ \E resp \in Responses : FetchReturn(resp)
    /\ UNCHANGED <<sniffVars, infoVars, diskVars, dlVars, batchVars, dedupVars, filesVars>>

\* C4: a fetch never makes more requests than max_redirects, and against a
\* source whose every response carries a Location it returns failure after
\* exactly max_redirects requests.
C4_RedirectBound ==
    /\ fRequests <= fN
    /\ (fPc = "done" /\ fAllRedirect) => (fResult = NoBytes /\ fRequests = fN)

\* C4 witness: a fetch with a budget of at least two that met redirects only
\* has returned.
C4_Witness ==
    /\ fPc = "done"
    /\ fAllRedirect
    /\ fN >= 2
    /\ fRequests = fN
    /\ fResult = NoBytes

\* the fetch returned at the budget check of lines 271-273, without a
\* request at its last level
GaveUp == fPc = "done" /\ (fRequests = 0 \/ IsRedirect(fLast))

\* the fetch returned on a response with status 200 and no Location header
EndedOnSuccess ==
    fPc = "done" /\ ~GaveUp /\ ~fLast.raise /\ fLast.status = 200

\* C21: with max_redirects = N a chain of k <= N redirects followed by a 200
\* response without Location is followed to its end: the fetch does not give
\* up after N or fewer redirects, and the content of the final response is
\* what it returns.
C21_FollowsChainWithinBudget ==
    /\ GaveUp => fRequests > fN
    /\ (EndedOnSuccess /\ fRequests - 1 <= fN) => fResult = fLast.content

\* C23: a response with a Location header is a redirect whatever its status:
\* its body is never the value of the fetch, and a fetch returns content only
\* from a response with status 200 and no Location, namely that response's
\* body.
C23_LocationAlwaysRedirects ==
    /\ IsRedirect(fLast) => fResult = NoBytes
    /\ fResult # NoBytes =>
          /\ fPc = "done"
          /\ ~fLast.raise
          /\ fLast.status = 200
          /\ fLast.location = ""
          /\ fResult = fLast.content

\* C23 witness: a fetch received status 200 with a Location and an image as
\* body, followed the Location and has returned.
C23_Witness ==
    /\ fPc = "done"
    /\ fRequests >= 2
    /\ fLast.status = 200
    /\ fLast.location # ""
    /\ fLast.content = JPEG_OK

FetchNext == FetchUserExhausted \/ FetchUserRedirect \/ FetchUserReturn
SpecFetch == FetchInit /\ [][FetchNext]_vars

(***************************************************************************)
(* Downloader: download_image.  The call starts a fetch; the level of the  *)
(* fetch that returns and the rest of download_image run as one step.  How *)
(* the write ends is an input of that step.                                *)
(***************************************************************************)
MaxCalls == 2

\* the arguments (url, save_dir, filename) of the calls; "" is filename=None
CallArgs ==
    { <<"https://a", "d1", "">>, <<"//b", "d2", "">>, <<"https://a", "d1", "x.jpg">> }

\* os.path.exists(file_path)
path_exists(files, file_path) == file_path \in DOMAIN files

\* the open() and write() calls on images the file system fails
MaxWriteFaults == 1

\* the file system may fail this open() or write(), and fails it
FaultCounted(w) ==
    writeFaults' = IF w.kind # "ok" THEN writeFaults + 1 ELSE writeFaults

\* open(file_path, 'wb') + f.write(content) that stored every byte
Written(content) == [kind |-> "ok", written |-> Len(content)]

\* open(file_path, 'wb') + f.write(content), ending as `w`:
\*   "ok"          the file holds content
\*   "open_fails"  open raised: nothing is created
\*   "write_fails" write raised after open truncated or created the file:
\*                 the file holds the first `written` bytes of content,
\*                 any number of them short of all
WriteOutcomes(content) ==
    {Written(content), [kind |-> "open_fails", written |-> 0]}
        \cup { [kind |-> "write_fails", written |-> k] : k \in 0..(Len(content) - 1) }

\* the ways this open() and write() can end while the file system may fail
PossibleWrites(content) ==
    IF writeFaults < MaxWriteFaults THEN WriteOutcomes(content) ELSE {Written(content)}

write_file(files, file_path, content, w, t) ==
    IF w.kind = "open_fails" THEN files
    ELSE [q \in DOMAIN files \cup {file_path} |->
            IF q = file_path
            THEN [content |-> Slice(content, 0, w.written), mtime |-> t]
            ELSE files[q]]

\* lines 433-436: the name the content is stored under
final_name(image_info, content, file_type, filename) ==
    LET md5_hex == IF image_info.md5 # "" THEN image_info.md5 ELSE md5_upper(content)
        ext == ExtensionFor(file_type)
    IN  IF filename # "" THEN filename ELSE md5_hex \o ext

\* the dict of lines 441-450 and 457-466
download_result(image_info, content, file_type, file_path) ==
    [ok |-> TRUE, file_path |-> file_path,
     width |-> image_info.width, height |-> image_info.height,
     size |-> image_info.size,
     md5 |-> IF image_info.md5 # "" THEN image_info.md5 ELSE md5_upper(content),
     file_type |-> file_type, phash |-> image_info.phash,
     orientation |-> image_info.orientation]

\* a download that never takes an existing path as done
skip_write_never(files, file_path) == FALSE

\* line 439: whether the write is skipped
skip_write(files, file_path) == path_exists(files, file_path)

\* lines 437-470: the target path is known
persist_at(content, file_type, image_info, name, file_path, files, w, t) ==
    IF skip_write(files, file_path)
    THEN [result |-> download_result(image_info, content, file_type, file_path),
          wrote |-> FALSE, name |-> name, files |-> files]
    ELSE [result |-> IF w.kind = "ok"
                     THEN download_result(image_info, content, file_type, file_path)
                     ELSE NoResult,
          wrote |-> TRUE, name |-> name,
          files |-> write_file(files, file_path, content, w, t)]

\* lines 433-437: the metadata and the type are known
persist_named(content, file_type, image_info, save_dir, filename, files, w, t) ==
    persist_at(content, file_type, image_info,
               final_name(image_info, content, file_type, filename),
               path_join(save_dir, final_name(image_info, content, file_type, filename)),
               files, w, t)

\* lines 428-433: the content is known
persist_typed(content, file_type, save_dir, filename, files, w, t) ==
    IF file_type = None
    THEN [result |-> NoResult, wrote |-> FALSE, name |-> "", files |-> files]
    ELSE persist_named(content, file_type, get_image_info(content),
                       save_dir, filename, files, w, t)

\* lines 424-470 of download_image, after the fetch returned `content`:
\* [result, wrote (open was called), name, files (the file system after)]
download_persist(content, save_dir, filename, files, w, t) ==
    IF content = NoBytes
    THEN [result |-> NoResult, wrote |-> FALSE, name |-> "", files |-> files]
    ELSE persist_typed(content, _identify_file_type_by_magic(Slice(content, 0, 32)),
                       save_dir, filename, files, w, t)

DlBegin(caller, url, save_dir, filename) ==
    /\ dlPc' = "fetching"
    /\ dlCaller' = caller
    /\ dlUrl' = url
    /\ dlDir' = save_dir
    /\ dlFilename' = filename
    /\ dlResult' = NoResult
    /\ FetchBegin("download", _add_https_if_missing(url), DEFAULT_MAX_REDIRECTS)

\* the rest of download_image once its fetch returned `content`
DlComplete(content, w) ==
    \E r \in {download_persist(content, dlDir, dlFilename, disk, w, now)} :
        /\ (w.kind # "ok") => r.wrote
        /\ FaultCounted(w)
        /\ dlResult' = r.result
        /\ disk' = r.files
        /\ folders' = IF r.wrote THEN makedirs(folders, dlDir) ELSE folders
        /\ UNCHANGED now
        /\ dlLog' = IF dlCaller = "user"
                     THEN Append(dlLog,
                            [url |-> dlUrl, dir |-> dlDir, filename |-> dlFilename,
                             content |-> content, ok |-> r.result.ok,
                             result |-> r.result,
                             wrote |-> r.wrote, name |-> r.name,
                             files |-> DOMAIN r.files])
                     ELSE dlLog
        /\ dlPc' = "done"
        /\ dlUrl' = ""
        /\ dlDir' = ""
        /\ dlFilename' = ""
        /\ UNCHANGED dlCaller

\* a caller of the class calls download_image(url, save_dir, filename)
DlCall ==
    /\ dlPc \in {"idle", "done"}
    /\ dlCaller = "user"
    /\ Len(dlLog) < MaxCalls
    /\ \E a \in CallArgs : DlBegin("user", a[1], a[2], a[3])
    /\ UNCHANGED <<dlLog, diskVars, sniffVars, infoVars, batchVars, dedupVars, filesVars>>

\* what the image hosts answer: any response, redirects leading to one
\* host, to a download of the user,
\* the responses of the batch scenario to a download of the batch
DownloadResponses == { resp \in Responses : resp.location \in {"", "//c"} }

DlResponses == IF dlCaller = "batch" THEN BatchImageResponses ELSE DownloadResponses

\* line 423: the fetch follows a redirect
DlFetchRedirect ==
    /\ dlPc = "fetching"
    /\ fCaller = "download"
    /\ \E resp \in DlResponses : FetchRedirect(resp)
    /\ UNCHANGED <<diskVars, dlVars, sniffVars, infoVars, batchVars, dedupVars, filesVars>>

\* lines 423-470: the fetch returns on an answer and download_image finishes
DlFinishOnResponse ==
    /\ dlPc = "fetching"
    /\ fCaller = "download"
    /\ fPc = "call"
    /\ fBudget > 0
    /\ \E resp \in DlResponses :
       \E w \in PossibleWrites(response_content(resp)) :
          /\ FetchReturn(resp)
          /\ DlComplete(response_content(resp), w)
    /\ UNCHANGED <<sniffVars, infoVars, batchVars, dedupVars, filesVars>>

\* lines 271-273, 424-426: the redirect budget is used up
DlFinishExhausted ==
    /\ dlPc = "fetching"
    /\ fCaller = "download"
    /\ fPc = "call"
    /\ FetchExhausted
    /\ DlComplete(NoBytes, Written(NoBytes))
    /\ UNCHANGED <<sniffVars, infoVars, batchVars, dedupVars, filesVars>>

DownloadInit ==
    /\ SniffIdle
    /\ InfoIdle
    /\ FetchIdle
    /\ DiskEmpty
    /\ DlIdle
    /\ BatchIdle
    /\ DedupIdle
    /\ FilesIdle

DownloadNext ==
    \/ DlCall
    \/ DlFetchRedirect
    \/ DlFinishOnResponse
    \/ DlFinishExhausted

SpecDownload == DownloadInit /\ [][DownloadNext]_vars

\* two successive download_image calls without a filename override into the
\* same directory whose fetches returned the same bytes
SameContentTwice(i) ==
    /\ i + 1 <= Len(dlLog)
    /\ dlLog[i].content # NoBytes
    /\ dlLog[i + 1].content = dlLog[i].content
    /\ dlLog[i + 1].dir = dlLog[i].dir
    /\ dlLog[i].filename = ""
    /\ dlLog[i + 1].filename = ""

\* C1: when the first of two such calls succeeded, the second succeeds too,
\* writes nothing, names the same file, and leaves the set of files as the
\* first call left it, the file of that content among them.
C1_SecondDownloadSkipsWrite ==
    \A i \in 1..Len(dlLog) :
        (SameContentTwice(i) /\ dlLog[i].ok) =>
            /\ dlLog[i + 1].ok
            /\ ~dlLog[i + 1].wrote
            /\ dlLog[i + 1].name = dlLog[i].name
            /\ dlLog[i + 1].files = dlLog[i].files
            /\ path_join(dlLog[i].dir, dlLog[i].name) \in dlLog[i + 1].files

\* C1 witness: the first call wrote the file and the second, for the same
\* bytes, returned success and opened no file.
C1_Witness ==
    /\ Len(dlLog) = 2
    /\ SameContentTwice(1)
    /\ dlLog[1].ok
    /\ dlLog[1].wrote
    /\ dlLog[2].ok
    /\ ~dlLog[2].wrote

\* C2: of two buffers downloaded without a filename override, different
\* content hashes give different default filenames and equal buffers give
\* the same default filename.
C2_NamesFollowContentHash ==
    \A i, j \in 1..Len(dlLog) :
        ( /\ dlLog[i].filename = "" /\ dlLog[j].filename = ""
          /\ dlLog[i].name # "" /\ dlLog[j].name # "" ) =>
            /\ md5_upper(dlLog[i].content) # md5_upper(dlLog[j].content)
                  => dlLog[i].name # dlLog[j].name
            /\ dlLog[i].content = dlLog[j].content
                  => dlLog[i].name = dlLog[j].name

\* why a logged call failed: the fetch returned None (lines 424-426), the
\* signature is unknown (lines 429-431), or open/write raised (lines 452-454)
FailureKind(call) ==
    IF call.content = NoBytes THEN "FetchFailed"
    ELSE IF call.name = "" THEN "UnrecognizedContent"
    ELSE "WriteFailed"

\* C12: failed download_image calls that failed for different reasons
\* return distinguishable values.
C12_FailuresDistinguishable ==
    \A i, j \in 1..Len(dlLog) :
        (~dlLog[i].ok /\ ~dlLog[j].ok /\ FailureKind(dlLog[i]) # FailureKind(dlLog[j]))
            => dlLog[i].result # dlLog[j].result

\* a download_image call of the user returns in this step
DlReturns == dlPc = "fetching" /\ dlPc' = "done" /\ Len(dlLog') = Len(dlLog) + 1

\* the record of the call that returns in this step
Returned == dlLog'[Len(dlLog')]

\* the result dict describes the buffer `content`
Describes(result, content) ==
    /\ result.size = Len(content)
    /\ result.md5 = md5_upper(content)
    /\ result.width = get_image_info(content).width
    /\ result.height = get_image_info(content).height
    /\ result.file_type = _identify_file_type_by_magic(Slice(content, 0, 32))

\* C13: a download_image call that finds its target path existing leaves
\* the file system as it is and returns metadata (size, hash, dimensions,
\* type) of the file stored at that path.
C13_ExistingFileDescribed ==
    [][ (DlReturns /\ Returned.ok /\ ~Returned.wrote) =>
           /\ disk' = disk
           /\ Returned.result.file_path \in DOMAIN disk
           /\ Describes(Returned.result, disk[Returned.result.file_path].content)
      ]_vars

\* the format the decoder reports for the buffer, lower-cased, "" when it
\* reports none
DecoderType(content) == get_image_info(content).file_type

\* the type the signature of the buffer gives
SniffedType(content) == _identify_file_type_by_magic(Slice(content, 0, 32))

\* C18: the file_type of a download result is the decoder's format whenever
\* the decoder reports one, and the signature-sniffed type otherwise.
C18_DecoderTypeAuthoritative ==
    \A i \in 1..Len(dlLog) :
        dlLog[i].ok =>
            dlLog[i].result.file_type =
                IF DecoderType(dlLog[i].content) # ""
                THEN DecoderType(dlLog[i].content)
                ELSE SniffedType(dlLog[i].content)

\* C20: a file that download_image wrote under its default name is named
\* by the uppercase hex MD5 of the bytes written to it, followed by the
\* extension of its type, also when the metadata came from a repair.
C20_DefaultStemIsHashOfWrittenBytes ==
    \A i \in 1..Len(dlLog) :
        (dlLog[i].wrote /\ dlLog[i].ok /\ dlLog[i].filename = "") =>
            dlLog[i].name =
                md5_upper(dlLog[i].content) \o ExtensionFor(SniffedType(dlLog[i].content))

\* the path a logged call stored, or tried to store, its content at
TargetPath(call) == path_join(call.dir, call.name)

\* C14: the final path of a download that opened its target for writing
\* either does not exist or holds the complete fetched content, also when
\* the write failed part-way.
C14_NoPartialFileAtFinalPath ==
    \A i \in 1..Len(dlLog) :
        dlLog[i].wrote =>
            \/ TargetPath(dlLog[i]) \notin DOMAIN disk
            \/ disk[TargetPath(dlLog[i])].content = dlLog[i].content

\* a fetch begins in this step
FetchBegins == fPc # "call" /\ fPc' = "call"

\* a download_image call begins in this step
CallBegins == dlPc # "fetching" /\ dlPc' = "fetching"

\* C22: a request that raised ends its fetch with the failure value and
\* ends the download_image call with a failure; no request of that fetch
\* follows it, a fetch goes on only by following a redirect, and a fetch
\* begins only where a download_image call begins, one per call.
C22_RaiseIsTerminal ==
    /\ [](fLast.raise =>
            /\ fPc = "done" /\ fResult = NoBytes
            /\ dlPc = "done" /\ dlResult = NoResult)
    /\ [][fLast.raise => (fRequests' = fRequests \/ (FetchBegins /\ CallBegins))]_vars
    /\ [][FetchBegins => (CallBegins /\ fRequests' = 0)]_vars
    /\ [][(dlPc = "fetching" /\ fRequests' # fRequests) =>
            /\ fRequests' = fRequests + 1
            /\ IsRedirect(fLast') \/ dlPc' = "done"]_vars

\* C22 witness: the second call of the caller ended on a request that raised
\* after its fetch had followed a redirect.
C22_Witness ==
    /\ Len(dlLog) = 2
    /\ dlPc = "done"
    /\ fLast.raise
    /\ fRequests >= 2
    /\ ~dlLog[2].ok

(***************************************************************************)
(* batch_download_from_api.  Response bodies are bytes; the text of a body *)
(* is its ASCII bytes, and the JSON documents of the model are the empty   *)
(* object and the objects with the one key "url" and a string value.       *)
(***************************************************************************)
MaxRounds == 2

\* str.strip(): leading and trailing white space (space, tab, line feed,
\* carriage return, form feed) is removed
RECURSIVE lstrip_space(_)
lstrip_space(s) ==
    IF s # "" /\ SubSeq(s, 1, 1) \in {" ", "\t", "\n", "\r", "\f"}
    THEN lstrip_space(SubSeq(s, 2, Len(s)))
    ELSE s

RECURSIVE rstrip_space(_)
rstrip_space(s) ==
    IF s # "" /\ SubSeq(s, Len(s), Len(s)) \in {" ", "\t", "\n", "\r", "\f"}
    THEN rstrip_space(SubSeq(s, 1, Len(s) - 1))
    ELSE s

strip(s) == rstrip_space(lstrip_space(s))

\* lines 578-582: the stripped, non-empty URLs in the order given
RECURSIVE clean_urls(_)
clean_urls(api_urls) ==
    IF api_urls = <<>> THEN <<>>
    ELSE IF strip(Head(api_urls)) # ""
    THEN <<strip(Head(api_urls))>> \o clean_urls(Tail(api_urls))
    ELSE clean_urls(Tail(api_urls))

\* content.decode('utf-8', errors='ignore') on the bodies of the model: a
\* byte above 127 that starts no valid sequence is dropped
decode_ignore(content) == SelectSeq(content, LAMBDA b : b < 128)

\* the characters of the URLs of the model: "-./0123456789:" from code 45
\* and the lower-case letters from code 97
UrlPunctuation == "-./0123456789:"
LowerLetters == "abcdefghijklmnopqrstuvwxyz"
UrlCodes == (45..58) \cup (97..122)

chr(b) ==
    IF b <= 58 THEN SubSeq(UrlPunctuation, b - 44, b - 44)
    ELSE SubSeq(LowerLetters, b - 96, b - 96)

RECURSIVE text_of(_)
text_of(bytes) ==
    IF bytes = <<>> THEN "" ELSE chr(Head(bytes)) \o text_of(Tail(bytes))

\* the bytes between the two quotes are a string of URL characters
PlainString(bytes) ==
    \A i \in 1..Len(bytes) : bytes[i] \in UrlCodes

\* the text is {"url":"..."}
IsUrlObject(text) ==
    /\ Len(text) >= Len(JSON_URL_OPEN) + Len(JSON_URL_CLOSE)
    /\ StartsWith(text, JSON_URL_OPEN)
    /\ SubSeq(text, Len(text) - 1, Len(text)) = JSON_URL_CLOSE
    /\ PlainString(SubSeq(text, Len(JSON_URL_OPEN) + 1, Len(text) - 2))

\* json.loads(decoded_content): [valid] and, when valid, the value of the
\* key "url" if there is one
json_loads(text) ==
    IF text = JSON_EMPTY_OBJECT
    THEN [valid |-> TRUE, has_url |-> FALSE, url |-> ""]
    ELSE IF IsUrlObject(text)
    THEN [valid |-> TRUE, has_url |-> TRUE,
          url |-> text_of(SubSeq(text, Len(JSON_URL_OPEN) + 1, Len(text) - 2))]
    ELSE [valid |-> FALSE, has_url |-> FALSE, url |-> ""]

\* lines 589-599: default_parser on the documents of the model ("" for None)
default_parser(json_data) == IF json_data.has_url THEN json_data.url ELSE ""

\* lines 625-626: the image URL handed to download_image
batch_image_url(parsed_url, api_url) ==
    IF ~(str_startswith(parsed_url, "http://") \/ str_startswith(parsed_url, "https://"))
    THEN (IF str_startswith(api_url, "https") THEN "https://" ELSE "http://")
            \o lstrip_slash(parsed_url)
    ELSE parsed_url

\* lines 646-647: the types handled as a directly returned image
RASTER_TYPES == {"jpeg", "png", "gif", "bmp", "webp", "tiff", "avif"}

\* os.remove(file_path), ending as rm: TRUE removed, FALSE raised
remove_file(files, file_path, rm) ==
    IF rm THEN [q \in (DOMAIN files) \ {file_path} |-> files[q]] ELSE files

\* the dict of lines 661-670 and 702-711
direct_result(image_info, file_path) ==
    [ok |-> TRUE, file_path |-> file_path,
     width |-> image_info.width, height |-> image_info.height,
     size |-> image_info.size, md5 |-> image_info.md5,
     file_type |-> image_info.file_type, phash |-> image_info.phash,
     orientation |-> image_info.orientation]

\* lines 649-683: the response carries a raster signature; the file is
\* written, then decoded, and removed again when the decode gives no size
direct_raster(content, file_path, image_info, files, w, rm, t) ==
    IF w.kind # "ok"
    THEN [ok |-> FALSE, result |-> NoResult,
          files |-> write_file(files, file_path, content, w, t)]
    ELSE IF image_info.width > 0 /\ image_info.height > 0
    THEN [ok |-> TRUE, result |-> direct_result(image_info, file_path),
          files |-> write_file(files, file_path, content, w, t)]
    ELSE [ok |-> FALSE, result |-> NoResult,
          files |-> remove_file(write_file(files, file_path, content, w, t),
                                file_path, rm)]

\* lines 684-716: the last resort, Image.open on the response
direct_fallback(content, o, file_path, image_info, files, w, t) ==
    IF o.stage = "open"
    THEN [ok |-> FALSE, result |-> NoResult, files |-> files]
    ELSE IF w.kind # "ok"
    THEN [ok |-> FALSE, result |-> NoResult,
          files |-> write_file(files, file_path, content, w, t)]
    ELSE [ok |-> TRUE, result |-> direct_result(image_info, file_path),
          files |-> write_file(files, file_path, content, w, t)]

\* lines 643-716, the signature-sniffed type and the decode outcome known
direct_typed(content, file_type, o, save_path, files, w, rm, t) ==
    IF file_type \in RASTER_TYPES
    THEN direct_raster(content,
                       path_join(save_path, md5_upper(content) \o ExtensionFor(file_type)),
                       get_image_info(content), files, w, rm, t)
    ELSE direct_fallback(content, o,
                         path_join(save_path,
                                   md5_upper(content) \o ExtensionFor(lower(o.format))),
                         get_image_info(content), files, w, t)

\* lines 631-716: a response that is not JSON.  The HTML check of lines
\* 634-639 raises inside a try whose bare except passes, so it decides
\* nothing.  [ok, result, files]
batch_direct(content, save_path, files, w, rm, t) ==
    direct_typed(content, _identify_file_type_by_magic(Slice(content, 0, 32)),
                 PilOutcome(content), save_path, files, w, rm, t)

\* lines 718-724: one success is counted and logged
batch_success(res, api_url, image_url, result, api_type) ==
    [success |-> res.success + 1, failed |-> res.failed,
     details |-> Append(res.details,
                   [api |-> api_url, image_url |-> image_url,
                    result |-> result, type |-> api_type])]

\* a batch that logs a failure without counting it
batch_failure_uncounted(res, api_url, round) ==
    [success |-> res.success, failed |-> res.failed,
     details |-> Append(res.details,
                   [api |-> api_url, error |-> "error", round |-> round + 1])]

\* lines 729-735: one failure is counted and logged; the text of the
\* exception is not modelled
batch_failure(res, api_url, round) ==
    [success |-> res.success, failed |-> res.failed + 1,
     details |-> Append(res.details,
                   [api |-> api_url, error |-> "error", round |-> round + 1])]

ApiUrlLists ==
    { <<>>, <<" \t">>, <<"http://b">>,
      <<" https://a\n", "", "http://b">>, <<"https://a", "https://a ">> }

BatchSavePath == "d1"

\* the attempts of one batch: count_per_api times the polled sources
MaxAttempts == 4

\* lines 578-601: the call batch_download_from_api(api_urls, save_path, n)
BatchCall ==
    /\ bPc = "idle"
    /\ \E api_urls \in ApiUrlLists, n \in 0..MaxRounds :
          /\ n * Len(clean_urls(api_urls)) <= MaxAttempts
          /\ cleaned_urls' = clean_urls(api_urls)
          /\ count_per_api' = n
          /\ bPc' = IF clean_urls(api_urls) = <<>> THEN "done" ELSE "loop"
    /\ UNCHANGED <<round_idx, api_idx, img_url, results, bAttempts, bContent>>
    /\ UNCHANGED <<sniffVars, infoVars, fetchVars, diskVars, dlVars, dedupVars, filesVars>>

\* lines 603-609: the body of the loop starts for the next (round, source)
BatchAttempt ==
    /\ bPc = "loop"
    /\ round_idx < count_per_api
    /\ bPc' = "fetching"
    /\ bAttempts' = Append(bAttempts, <<round_idx, api_idx>>)
    /\ bContent' = NoBytes
    /\ FetchBegin("batch", cleaned_urls[api_idx], DEFAULT_MAX_REDIRECTS)
    /\ UNCHANGED <<cleaned_urls, count_per_api, round_idx, api_idx, img_url, results>>
    /\ UNCHANGED <<sniffVars, infoVars, diskVars, dlVars, dedupVars, filesVars>>

\* line 604: the loops move on to the next source, or to the next round
BatchAdvance ==
    /\ bPc' = "loop"
    /\ img_url' = ""
    /\ IF api_idx < Len(cleaned_urls)
       THEN api_idx' = api_idx + 1 /\ round_idx' = round_idx
       ELSE api_idx' = 1 /\ round_idx' = round_idx + 1
    /\ UNCHANGED <<cleaned_urls, count_per_api, bAttempts>>

\* lines 729-735, then the next iteration
BatchFail ==
    /\ results' = batch_failure(results, cleaned_urls[api_idx], round_idx)
    /\ BatchAdvance

\* lines 718-724, then the next iteration
BatchSucceed(image_url, result, api_type) ==
    /\ results' = batch_success(results, cleaned_urls[api_idx], image_url,
                                result, api_type)
    /\ BatchAdvance

\* line 609: the fetch follows a redirect
BatchFetchRedirect ==
    /\ bPc = "fetching"
    /\ fCaller = "batch"
    /\ \E resp \in BatchResponses : FetchRedirect(resp)
    /\ UNCHANGED <<sniffVars, infoVars, diskVars, dlVars, batchVars, dedupVars, filesVars>>

\* lines 271-273, 611-612: the redirect budget is used up
BatchFetchExhausted ==
    /\ bPc = "fetching"
    /\ fPc = "call"
    /\ fBudget <= 0
    /\ bContent' = NoBytes
    /\ BatchFail
    /\ FetchReset
    /\ UNCHANGED <<sniffVars, infoVars, diskVars, dlVars, dedupVars, filesVars>>

\* lines 611-612: the request raised or was answered without content
BatchFetchFailed ==
    /\ bPc = "fetching"
    /\ fPc = "call"
    /\ fBudget > 0
    /\ \E resp \in BatchResponses :
          /\ ~IsRedirect(resp)
          /\ response_content(resp) = NoBytes
    /\ bContent' = NoBytes
    /\ BatchFail
    /\ FetchReset
    /\ UNCHANGED <<sniffVars, infoVars, diskVars, dlVars, dedupVars, filesVars>>

\* lines 617-627: the response is JSON with an image URL: download_image is
\* called with it
BatchJsonDownload ==
    /\ bPc = "fetching"
    /\ fPc = "call"
    /\ fBudget > 0
    /\ \E resp \in BatchResponses :
          /\ ~IsRedirect(resp)
          /\ response_content(resp) # NoBytes
          /\ \E j \in {json_loads(decode_ignore(response_content(resp)))} :
                /\ j.valid
                /\ default_parser(j) # ""
                /\ bContent' = response_content(resp)
                /\ img_url' = batch_image_url(default_parser(j), cleaned_urls[api_idx])
                /\ DlBegin("batch",
                           batch_image_url(default_parser(j), cleaned_urls[api_idx]),
                           BatchSavePath, "")
    /\ bPc' = "downloading"
    /\ UNCHANGED <<cleaned_urls, count_per_api, round_idx, api_idx, results, bAttempts>>
    /\ UNCHANGED <<dlLog, sniffVars, infoVars, diskVars, dedupVars, filesVars>>

\* lines 628-630: the response is JSON without an image URL
BatchJsonNoUrl ==
    /\ bPc = "fetching"
    /\ fPc = "call"
    /\ fBudget > 0
    /\ \E resp \in BatchResponses :
          /\ ~IsRedirect(resp)
          /\ response_content(resp) # NoBytes
          /\ bContent' = response_content(resp)
          /\ \E j \in {json_loads(decode_ignore(response_content(resp)))} :
                j.valid /\ default_parser(j) = ""
    /\ BatchFail
    /\ FetchReset
    /\ UNCHANGED <<sniffVars, infoVars, diskVars, dlVars, dedupVars, filesVars>>

\* lines 653, 694: the directory is made before the file is opened, in the
\* last resort once Image.open has taken the response
direct_makes_dir(content) ==
    \/ _identify_file_type_by_magic(Slice(content, 0, 32)) \in RASTER_TYPES
    \/ PilOutcome(content).stage # "open"

\* lines 631-716: the response is not JSON and is handled as an image
BatchDirect ==
    /\ bPc = "fetching"
    /\ fPc = "call"
    /\ fBudget > 0
    /\ \E resp \in BatchResponses, rm \in BOOLEAN :
       \E w \in PossibleWrites(response_content(resp)) :
          /\ ~IsRedirect(resp)
          /\ response_content(resp) # NoBytes
          /\ ~json_loads(decode_ignore(response_content(resp))).valid
          /\ bContent' = response_content(resp)
          /\ \E r \in {batch_direct(response_content(resp), BatchSavePath,
                                    disk, w, rm, now)} :
                /\ (w.kind # "ok") =>
                      r # batch_direct(response_content(resp), BatchSavePath, disk,
                                       Written(response_content(resp)), rm, now)
                /\ FaultCounted(w)
                /\ disk' = r.files
                /\ folders' = IF direct_makes_dir(response_content(resp))
                              THEN makedirs(folders, BatchSavePath)
                              ELSE folders
                /\ IF r.ok
                   THEN BatchSucceed(cleaned_urls[api_idx], r.result, "direct")
                   ELSE BatchFail
    /\ FetchReset
    /\ UNCHANGED <<now, sniffVars, infoVars, dlVars, dedupVars, filesVars>>

\* lines 627, 717-727: download_image returned
BatchDownloadReturn ==
    /\ bPc = "downloading"
    /\ dlPc = "done"
    /\ IF dlResult.ok
       THEN BatchSucceed(img_url, dlResult, "json")
       ELSE BatchFail
    /\ dlPc' = "idle"
    /\ dlCaller' = "user"
    /\ dlResult' = NoResult
    /\ FetchReset
    /\ UNCHANGED <<bContent, dlUrl, dlDir, dlFilename, dlLog>>
    /\ UNCHANGED <<sniffVars, infoVars, diskVars, dedupVars, filesVars>>

\* line 737: both loops are over
BatchReturn ==
    /\ bPc = "loop"
    /\ round_idx >= count_per_api
    /\ bPc' = "done"
    /\ UNCHANGED <<cleaned_urls, count_per_api, round_idx, api_idx, img_url,
                   results, bAttempts, bContent>>
    /\ UNCHANGED <<sniffVars, infoVars, fetchVars, diskVars, dlVars, dedupVars, filesVars>>

\* the save directory before the batch: empty, or holding a file that an
\* earlier download_image call stored under its content-addressed name
SavedEarlier ==
    [q \in {path_join(BatchSavePath, md5_upper(JPEG_BAD) \o ExtensionFor("jpeg"))} |->
        [content |-> JPEG_BAD, mtime |-> 1]]

BatchInit ==
    /\ SniffIdle
    /\ InfoIdle
    /\ FetchIdle
    /\ disk \in {<<>>, SavedEarlier}
    /\ folders = parents(disk)
    /\ now = 1
    /\ writeFaults = 0
    /\ DlIdle
    /\ BatchIdle
    /\ DedupIdle
    /\ FilesIdle

BatchNext ==
    \/ BatchCall
    \/ BatchAttempt
    \/ BatchFetchRedirect
    \/ BatchFetchExhausted
    \/ BatchFetchFailed
    \/ BatchJsonDownload
    \/ BatchJsonNoUrl
    \/ BatchDirect
    \/ DlFetchRedirect
    \/ DlFinishOnResponse
    \/ DlFinishExhausted
    \/ BatchDownloadReturn
    \/ BatchReturn

SpecBatch == BatchInit /\ [][BatchNext]_vars

\* the (round, source) pairs in the order of the two loops
AttemptOrder(rounds, sources) ==
    [k \in 1..(rounds * sources) |-> <<(k - 1) \div sources, ((k - 1) % sources) + 1>>]

\* C5: every (round, source) pair is attempted once, in order, and every
\* attempt that ended added exactly one success or one failure and one
\* entry of details; on return success + failed is count_per_api times
\* the number of polled sources.
C5_EveryAttemptCounted ==
    /\ results.success + results.failed = Len(results.details)
    /\ Len(bAttempts) <= count_per_api * Len(cleaned_urls)
    /\ bAttempts = SubSeq(AttemptOrder(count_per_api, Len(cleaned_urls)),
                          1, Len(bAttempts))
    /\ bPc \in {"loop", "done"} => Len(results.details) = Len(bAttempts)
    /\ bPc \in {"fetching", "downloading"} =>
          Len(results.details) = Len(bAttempts) - 1
    /\ bPc = "done" =>
          /\ Len(bAttempts) = count_per_api * Len(cleaned_urls)
          /\ results.success + results.failed = count_per_api * Len(cleaned_urls)

\* C5 witness: a batch of two rounds over two sources returned; its first
\* attempt failed and later attempts of the same round and of the next
\* round succeeded and failed.
C5_Witness ==
    /\ bPc = "done"
    /\ count_per_api = 2
    /\ Len(cleaned_urls) = 2
    /\ results.success = 2
    /\ results.failed = 2
    /\ "error" \in DOMAIN results.details[1]
    /\ "type" \in DOMAIN results.details[2]
    /\ "type" \in DOMAIN results.details[3]
    /\ "error" \in DOMAIN results.details[4]

\* the source URL polled by the k-th attempt
PolledUrl(k) == cleaned_urls[bAttempts[k][2]]

\* the attempt that ends in this step had fetched a response that is not
\* valid JSON and whose signature is not of a raster type
NonImageAttemptEnds ==
    /\ bPc = "fetching"
    /\ bPc' = "loop"
    /\ bContent' # NoBytes
    /\ ~json_loads(decode_ignore(bContent')).valid
    /\ _identify_file_type_by_magic(Slice(bContent', 0, 32)) \notin RASTER_TYPES

\* C19: a fetched response that is neither valid JSON nor starts with a
\* raster-image signature is counted as one failure and no file is saved
\* for it.
C19_NonImageResponseFails ==
    [][ NonImageAttemptEnds =>
           /\ results'.failed = results.failed + 1
           /\ results'.success = results.success
           /\ disk' = disk
      ]_vars

\* C11: the trimmed input URLs are deduplicated: within one round no source
\* URL is polled twice, however often it was given in api_urls.
C11_EachSourceOncePerRound ==
    \A a, b \in 1..Len(bAttempts) :
        (bAttempts[a][1] = bAttempts[b][1] /\ PolledUrl(a) = PolledUrl(b)) => a = b

(***************************************************************************)
(* deduplicate_by_phash_optimized.  The pool's workers run process_file    *)
(* concurrently; the main thread inserts their results in the order they   *)
(* complete.                                                               *)
(***************************************************************************)
MaxRuns == 2
MaxEnvSteps == 1

UpperLetters == "ABCDEFGHIJKLMNOPQRSTUVWXYZ"

LowerChar(c) ==
    IF \E i \in 1..Len(UpperLetters) : SubSeq(UpperLetters, i, i) = c
    THEN LET i == CHOOSE k \in 1..Len(UpperLetters) : SubSeq(UpperLetters, k, k) = c
         IN  SubSeq(LowerLetters, i, i)
    ELSE c

\* str.lower() on file names
RECURSIVE str_lower(_)
str_lower(s) == IF s = "" THEN "" ELSE LowerChar(Head(s)) \o str_lower(Tail(s))

\* genericpath._splitext: the extension starts at the last dot when that
\* dot is in the last component and a character other than a dot stands
\* before it in that component
ext_from(file_path, sep, dot) ==
    IF dot > sep /\ \E i \in (sep + 1)..(dot - 1) : SubSeq(file_path, i, i) # "."
    THEN SubSeq(file_path, dot, Len(file_path))
    ELSE ""

\* os.path.splitext(file_path)[1]
splitext_ext(file_path) ==
    ext_from(file_path, rfind(file_path, "/"), rfind(file_path, "."))

\* line 845
IMAGE_EXTENSIONS == {".jpg", ".jpeg", ".png", ".gif", ".bmp", ".webp", ".tiff", ".tif"}

\* a filter that takes every file for an image
_is_any_file(file_path) == file_path = file_path

\* _is_likely_image(file_path)
_is_likely_image(file_path) == str_lower(splitext_ext(file_path)) \in IMAGE_EXTENSIONS

\* the path names a file directly inside the directory
InDirectory(file_path, directory) ==
    /\ str_startswith(file_path, directory \o "/")
    /\ \A i \in (Len(directory) + 2)..Len(file_path) : SubSeq(file_path, i, i) # "/"

\* list_files_in_directory(directory): the names of the files in it
list_files_in_directory(files, directory) ==
    { SubSeq(q, Len(directory) + 2, Len(q)) :
        q \in { q2 \in DOMAIN files : InDirectory(q2, directory) } }

\* line 816: the ceiling of the automatic pool size
POOL_CEILING == 16

\* lines 815-816: the size of the pool
pool_size(max_workers_arg, cpu_count) ==
    IF max_workers_arg <= 0
    THEN (IF cpu_count < 1 THEN 1
          ELSE IF cpu_count > POOL_CEILING THEN POOL_CEILING ELSE cpu_count)
    ELSE max_workers_arg

\* no entry: process_file's None
NoEntry == [phash |-> "", size |-> 0, mtime |-> 0, path |-> ""]

\* lines 876-878: the cache answers for the file
cache_hit(filename, file_mtime, cached) ==
    /\ filename \in DOMAIN cached
    /\ cached[filename].mtime = file_mtime

\* lines 886-894: the entry made from a decode, NoEntry when it gave no hash
entry_of(info, file_mtime, file_path) ==
    IF info.phash # ""
    THEN [phash |-> info.phash, size |-> info.size, mtime |-> file_mtime,
          path |-> file_path]
    ELSE NoEntry

\* lines 876-897 of process_file, after getmtime returned file_mtime:
\* [decoded (get_image_info was called), entry]
process_file(filename, file_mtime, file_path, files, cached) ==
    IF cache_hit(filename, file_mtime, cached)
    THEN [decoded |-> FALSE, entry |-> cached[filename]]
    ELSE IF file_path \notin DOMAIN files
    THEN \* open raises inside the try
         [decoded |-> FALSE, entry |-> NoEntry]
    ELSE [decoded |-> TRUE,
          entry |-> entry_of(get_image_info(files[file_path].content),
                             file_mtime, file_path)]

\* lines 834-837: the entries of one hash, in insertion order
group_of(found, h) == SelectSeq(found, LAMBDA r : r.entry.phash = h)

\* the keys of phash_groups
group_keys(found) == { found[i].entry.phash : i \in 1..Len(found) }

\* list.sort(key=size, reverse=True): stable, larger sizes first
RECURSIVE insert_by_size(_, _)
insert_by_size(sorted, r) ==
    IF sorted = <<>> THEN <<r>>
    ELSE IF Head(sorted).entry.size >= r.entry.size
    THEN <<Head(sorted)>> \o insert_by_size(Tail(sorted), r)
    ELSE <<r>> \o sorted

RECURSIVE sort_by_size(_)
sort_by_size(group) ==
    IF group = <<>> THEN <<>>
    ELSE insert_by_size(sort_by_size(SubSeq(group, 1, Len(group) - 1)),
                        group[Len(group)])

\* lines 913-916: the paths _remove_duplicates calls os.remove on
paths_to_remove(found) ==
    UNION { { sort_by_size(group_of(found, h))[i].entry.path :
                i \in 2..Len(group_of(found, h)) } : h \in group_keys(found) }

\* a removal loop that a failed os.remove ends: nothing is removed once a
\* path is denied
remove_until_failure(files, paths, denied) ==
    IF denied = {} THEN [q \in (DOMAIN files) \ paths |-> files[q]] ELSE files

\* lines 917-922: os.remove fails on a missing path and on the paths in
\* `denied`; the other paths are removed
remove_all(files, paths, denied) ==
    [q \in (DOMAIN files) \ (paths \ denied) |-> files[q]]

\* lines 859-865: how _save_cache ends: the file is written, open raised
\* and the old file stays, or the dump raised and the file holds a part of
\* the JSON text, which loads as an empty cache
SaveOutcomes == {"ok", "open_fails", "write_fails"}

\* a save that updates the entries of the old cache file and keeps the rest
saved_cache_merged(old, found, w) ==
    IF w = "ok" THEN [f \in (DOMAIN old) \cup { found[i].filename : i \in 1..Len(found) } |->
                        IF \E i \in 1..Len(found) : found[i].filename = f
                        THEN (CHOOSE r \in { found[i] : i \in 1..Len(found) } :
                                r.filename = f).entry
                        ELSE old[f]]
    ELSE IF w = "open_fails" THEN old
    ELSE <<>>

\* lines 831, 859-865: what the cache file holds after _save_cache
saved_cache(old, found, w) ==
    IF w = "ok" THEN [f \in { found[i].filename : i \in 1..Len(found) } |->
                        (CHOOSE r \in { found[i] : i \in 1..Len(found) } :
                            r.filename = f).entry]
    ELSE IF w = "open_fails" THEN old
    ELSE <<>>

DedupDir == "d1"

\* the files of the scenarios: three JPEG files with the perceptual hash
\* H1, the largest of them decodable only after a repair, one JPEG file
\* with the hash H2, one that does not load, and a PNG file with the hash H1
BIG_REPAIRED == JPEG_SIG \o <<7, 0, 0>>
MID == JPEG_SIG \o <<1, 0>>
OTHER_HASH == JPEG_SIG \o <<2>>
PNG_H1 == PNG_SIG \o <<1>>


\* a directory holding the given contents (NoBytes: no such file)
DirectoryOf(a, b, c, n) ==
    LET want == [q \in {"d1/a.jpg", "d1/b.JPG", "d1/c.png", "d1/n.txt"} |->
                    CASE q = "d1/a.jpg" -> a [] q = "d1/b.JPG" -> b
                      [] q = "d1/c.png" -> c [] OTHER -> n]
    IN  [q \in { q2 \in DOMAIN want : want[q2] # NoBytes } |->
            [content |-> want[q], mtime |-> 1]]

\* the directories of the scenarios: a.jpg and b.JPG of every kind without
\* c.png, and with c.png three pictures of one hash, two of one hash beside
\* a file that does not load, and two of one hash beside one of another
DedupDisks ==
    { DirectoryOf(a, b, NoBytes, MID) :
        a \in {BIG_REPAIRED, MID, OTHER_HASH, NoBytes},
        b \in {MID, JPEG_OK, JPEG_BAD, NoBytes} }
      \cup { DirectoryOf(t[1], t[2], PNG_H1, MID) :
                t \in { <<MID, MID>>, <<MID, JPEG_OK>>, <<MID, JPEG_BAD>>,
                        <<OTHER_HASH, MID>> } }

\* the max_workers arguments of the scenarios, each with the processor
\* count of its machine: negative and zero give pools of 1 and of 16
PoolScenarios == {<<-1, 1>>, <<0, 32>>, <<2, 1>>}

\* lines 815-828: the call deduplicate_by_phash_optimized(directory, n,
\* cache_file) up to the submission of the files to the pool
DedupCall ==
    /\ dPc \in {"idle", "done", "aborted"}
    /\ Len(dLog) < MaxRuns
    /\ dPc' = "scan"
    /\ dDir' = DedupDir
    /\ \E a \in PoolScenarios :
          /\ dWorkersArg' = a[1]
          /\ max_workers' = pool_size(a[1], a[2])
    /\ dFiles' = { f \in list_files_in_directory(disk, DedupDir) :
                     _is_likely_image(path_join(DedupDir, f)) }
    /\ pending' = dFiles'
    /\ cache' = cacheFile
    /\ running' = {}
    /\ returned' = {}
    /\ dMain' = "collect"
    /\ phash_results' = <<>>
    /\ decodes' = 0
    /\ UNCHANGED <<cacheFile, envSteps, dLog>>
    /\ UNCHANGED <<sniffVars, infoVars, fetchVars, diskVars, dlVars, batchVars, filesVars>>

\* a pool without a limit: a submitted file is taken whenever one is pending
WorkerStartUnlimited ==
    /\ dPc = "scan"
    /\ \E f \in pending :
          /\ path_join(dDir, f) \in DOMAIN disk
          /\ pending' = pending \ {f}
          /\ running' = running \cup
                {[filename |-> f, mtime |-> disk[path_join(dDir, f)].mtime]}
    /\ UNCHANGED <<cacheFile, dPc, dDir, dWorkersArg, max_workers, cache, dFiles, returned,
                   dMain, phash_results, decodes, envSteps, dLog>>
    /\ UNCHANGED <<sniffVars, infoVars, fetchVars, diskVars, dlVars, batchVars, filesVars>>

\* lines 873-874: a free worker takes the next file and reads its mtime
WorkerStart ==
    /\ dPc = "scan"
    /\ Cardinality(running) < max_workers
    /\ \E f \in pending :
          /\ path_join(dDir, f) \in DOMAIN disk
          /\ pending' = pending \ {f}
          /\ running' = running \cup
                {[filename |-> f, mtime |-> disk[path_join(dDir, f)].mtime]}
    /\ UNCHANGED <<cacheFile, dPc, dDir, dWorkersArg, max_workers, cache, dFiles, returned,
                   dMain, phash_results, decodes, envSteps, dLog>>
    /\ UNCHANGED <<sniffVars, infoVars, fetchVars, diskVars, dlVars, batchVars, filesVars>>

\* what as_completed will hand to the main thread once the future of
\* `filename` is done too; a future that is done after the main thread left
\* the loop is handed to nobody
handed_over(futures, main, filename, raised, entry) ==
    IF main = "collect"
    THEN futures \cup {[filename |-> filename, raised |-> raised, entry |-> entry]}
    ELSE futures

\* lines 873-874: a free worker takes the next file, getmtime raises on a
\* file that is gone and the exception leaves process_file: the future is
\* done with it and the worker is free for the next file
WorkerRaises ==
    /\ dPc = "scan"
    /\ Cardinality(running) < max_workers
    /\ \E f \in pending :
          /\ path_join(dDir, f) \notin DOMAIN disk
          /\ pending' = pending \ {f}
          /\ returned' = handed_over(returned, dMain, f, TRUE, NoEntry)
    /\ UNCHANGED <<cacheFile, dPc, dDir, dWorkersArg, max_workers, cache, dFiles, running,
                   dMain, phash_results, decodes, envSteps, dLog>>
    /\ UNCHANGED <<sniffVars, infoVars, fetchVars, diskVars, dlVars, batchVars, filesVars>>

\* lines 876-897: a worker returns from process_file: its future is done
\* and the worker is free for the next file
WorkerFinish ==
    /\ dPc = "scan"
    /\ \E w \in running :
          \E r \in {process_file(w.filename, w.mtime, path_join(dDir, w.filename),
                                 disk, cache)} :
             /\ running' = running \ {w}
             /\ decodes' = IF r.decoded THEN decodes + 1 ELSE decodes
             /\ returned' = handed_over(returned, dMain, w.filename, FALSE, r.entry)
    /\ UNCHANGED <<cacheFile, dPc, dDir, dWorkersArg, max_workers, cache, dFiles, pending,
                   dMain, phash_results, envSteps, dLog>>
    /\ UNCHANGED <<sniffVars, infoVars, fetchVars, diskVars, dlVars, batchVars, filesVars>>

\* lines 904-906: `if result:` and the insertion
inserted(found, filename, entry) ==
    IF entry # NoEntry
    THEN Append(found, [filename |-> filename, entry |-> entry])
    ELSE found

\* lines 902-906: as_completed hands a future that returned to the main
\* thread, which inserts its result
MainInsert ==
    /\ dPc = "scan"
    /\ dMain = "collect"
    /\ \E r \in returned :
          /\ ~r.raised
          /\ returned' = returned \ {r}
          /\ phash_results' = inserted(phash_results, r.filename, r.entry)
    /\ UNCHANGED <<cacheFile, dPc, dDir, dWorkersArg, max_workers, cache, dFiles, pending,
                   running, dMain, decodes, envSteps, dLog>>
    /\ UNCHANGED <<sniffVars, infoVars, fetchVars, diskVars, dlVars, batchVars, filesVars>>

\* lines 902-903: as_completed hands a future that raised to the main
\* thread; future.result() raises again, the main thread leaves the loop
\* and waits at the end of the with block (shutdown(wait=True)) while the
\* pool works off the files still queued
MainReraise ==
    /\ dPc = "scan"
    /\ dMain = "collect"
    /\ \E r \in returned : r.raised
    /\ dMain' = "shutdown"
    /\ returned' = {}
    /\ UNCHANGED <<cacheFile, dPc, dDir, dWorkersArg, max_workers, cache, dFiles, pending,
                   running, phash_results, decodes, envSteps, dLog>>
    /\ UNCHANGED <<sniffVars, infoVars, fetchVars, diskVars, dlVars, batchVars, filesVars>>

\* a run that raised
aborted_run(directory, steps) ==
    [aborted |-> TRUE, dir |-> directory, env |-> steps]

\* the pool has worked off every file: the with block is left and the
\* exception leaves the call, which saved no cache and removed nothing
DedupRaise ==
    /\ dPc = "scan"
    /\ dMain = "shutdown"
    /\ pending = {}
    /\ running = {}
    /\ dPc' = "aborted"
    /\ dMain' = "idle"
    /\ phash_results' = <<>>
    /\ cache' = <<>>
    /\ dFiles' = {}
    /\ decodes' = 0
    /\ dLog' = Append(dLog, aborted_run(dDir, envSteps))
    /\ dDir' = ""
    /\ dWorkersArg' = 0
    /\ max_workers' = 0
    /\ UNCHANGED <<cacheFile, pending, running, returned, envSteps>>
    /\ UNCHANGED <<sniffVars, infoVars, fetchVars, diskVars, dlVars, batchVars, filesVars>>

\* lines 834-837: phash_groups, as hash -> the names of the files grouped
Groupings(found) ==
    [h \in group_keys(found) |->
        { found[k].filename : k \in { k2 \in 1..Len(found) : found[k2].entry.phash = h } }]

\* lines 834-837: phash_groups, as hash -> the paths of the entries grouped
GroupPaths(found) ==
    [h \in group_keys(found) |->
        { found[k].entry.path : k \in { k2 \in 1..Len(found) : found[k2].entry.phash = h } }]

\* a run that returned: the directory before the removals and after them,
\* what the scan found, the decodes made, how the save of the cache ended,
\* the removals that failed, and the changes others had made by then
finished_run(directory, before, after, found, n, w, denied, steps) ==
    [aborted |-> FALSE, dir |-> directory, before |-> before, after |-> after,
     groups |-> Groupings(found), paths |-> GroupPaths(found),
     decodes |-> n, saved |-> (w = "ok"),
     all_removed |-> (denied = {}), failed |-> denied, env |-> steps]

\* lines 917-922: the removals that fail in a run: any of them
RemovalFailures(paths) == SUBSET paths

\* lines 831-840: every file is processed: the cache is saved, the results
\* are grouped and the duplicates are removed
DedupFinish ==
    /\ dPc = "scan"
    /\ dMain = "collect"
    /\ pending = {}
    /\ running = {}
    /\ returned = {}
    /\ \E w \in SaveOutcomes, denied \in RemovalFailures(paths_to_remove(phash_results)) :
          /\ cacheFile' = saved_cache(cacheFile, phash_results, w)
          /\ disk' = remove_all(disk, paths_to_remove(phash_results), denied)
          /\ dLog' = Append(dLog,
                finished_run(dDir, disk,
                             remove_all(disk, paths_to_remove(phash_results), denied),
                             phash_results, decodes, w, denied, envSteps))
    /\ dPc' = "done"
    /\ dMain' = "idle"
    /\ dDir' = ""
    /\ dWorkersArg' = 0
    /\ max_workers' = 0
    /\ cache' = <<>>
    /\ dFiles' = {}
    /\ phash_results' = <<>>
    /\ decodes' = 0
    /\ UNCHANGED <<pending, running, returned, envSteps, folders, now, writeFaults>>
    /\ UNCHANGED <<sniffVars, infoVars, fetchVars, dlVars, batchVars, filesVars>>

\* someone else removes a file of the directory while the pool is running
EnvRemoveFile ==
    /\ dPc = "scan"
    /\ envSteps < MaxEnvSteps
    /\ \E q \in DOMAIN disk :
          /\ InDirectory(q, dDir)
          /\ _is_likely_image(q)
          /\ disk' = remove_all(disk, {q}, {})
    /\ envSteps' = envSteps + 1
    /\ UNCHANGED <<cacheFile, dPc, dDir, dWorkersArg, max_workers, cache, dFiles, pending, running,
                   returned, dMain, phash_results, decodes, dLog, folders, now, writeFaults>>
    /\ UNCHANGED <<sniffVars, infoVars, fetchVars, dlVars, batchVars, filesVars>>

\* another directory, holding a.jpg with the modification time the files
\* of the scanned directory have
OtherDirFiles == [q \in {"d2/a.jpg"} |-> [content |-> MID, mtime |-> 1]]

\* lines 831, 872-906: the cache file an earlier run on that directory wrote
ForeignCache ==
    saved_cache(<<>>,
                inserted(<<>>, "a.jpg",
                         process_file("a.jpg", 1, "d2/a.jpg", OtherDirFiles, <<>>).entry),
                "ok")

\* the directories scanned with that cache file: a.jpg is another picture
\* or missing, b.JPG has the hash of the cached entry
ForeignCacheDisks ==
    { DirectoryOf(a, b, NoBytes, MID) :
        a \in {OTHER_HASH, NoBytes}, b \in {MID, JPEG_OK} }

DedupInit ==
    /\ SniffIdle
    /\ InfoIdle
    /\ FetchIdle
    /\ \/ disk \in DedupDisks /\ cacheFile = <<>>
       \/ \E d \in ForeignCacheDisks :
             disk = d @@ OtherDirFiles /\ cacheFile = ForeignCache
    /\ folders = parents(disk)
    /\ now = 1
    /\ writeFaults = 0
    /\ DlIdle
    /\ BatchIdle
    /\ DedupAtRest
    /\ FilesIdle

DedupNext ==
    \/ DedupCall
    \/ WorkerStart
    \/ WorkerRaises
    \/ WorkerFinish
    \/ MainInsert
    \/ MainReraise
    \/ DedupRaise
    \/ DedupFinish
    \/ EnvRemoveFile

SpecDedup == DedupInit /\ [][DedupNext]_vars

\* the perceptual hash of a file's content
TruePhash(content) == get_image_info(content).phash

\* the files a run scanned
Scanned(r) ==
    { q \in DOMAIN r.before : InDirectory(q, r.dir) /\ _is_likely_image(q) }

\* the scanned files that share the perceptual hash of q
SameHash(r, q) ==
    { q2 \in Scanned(r) :
        TruePhash(r.before[q2].content) = TruePhash(r.before[q].content) }

\* the run returned, every removal it attempted succeeded and nobody else
\* changed the directory
CleanRun(r) == ~r.aborted /\ r.all_removed /\ r.env = 0

\* C3: after a run whose deletions all succeeded, of the scanned files that
\* share a perceptual hash exactly one remains, and none of them was larger.
C3_OnlyLargestRemains ==
    \A i \in 1..Len(dLog) :
        CleanRun(dLog[i]) =>
            \A q \in Scanned(dLog[i]) :
                TruePhash(dLog[i].before[q].content) # "" =>
                    \E keep \in SameHash(dLog[i], q) :
                        /\ SameHash(dLog[i], q) \cap DOMAIN dLog[i].after = {keep}
                        /\ \A q2 \in SameHash(dLog[i], q) :
                              Len(dLog[i].before[keep].content)
                                 >= Len(dLog[i].before[q2].content)

\* C10: a second run on the same directory and cache file, nothing having
\* changed the directory in between and the cache having been saved, makes
\* no decode and produces the groupings of the first run.
C10_SecondRunFromCache ==
    \A i \in 1..(Len(dLog) - 1) :
        ( /\ ~dLog[i].aborted /\ ~dLog[i + 1].aborted
          /\ dLog[i].saved
          /\ dLog[i + 1].env = 0 ) =>
            /\ dLog[i + 1].decodes = 0
            /\ dLog[i + 1].groups = dLog[i].groups

\* C15: a file that fails while it is processed (unreadable, undecodable,
\* or removed after the directory was listed) does not abort the scan: every
\* run that was started returns, having processed the other files, saved
\* the cache and removed the duplicates.
C15_FailureDoesNotAbortScan ==
    /\ dPc # "aborted"
    /\ \A i \in 1..Len(dLog) : ~dLog[i].aborted

\* the results once the running worker w has completed too
CompletedBy(found, w) ==
    inserted(found, w.filename,
             process_file(w.filename, w.mtime, path_join(dDir, w.filename),
                          disk, cache).entry)

\* C16: which files survive does not depend on the order in which the
\* concurrent workers complete: when the last two files of a scan are being
\* processed at the same time, the files removed are the same whichever of
\* the two workers completes first, also when members of a group have the
\* same size.
C16_SurvivorsIndependentOfOrder ==
    (dPc = "scan" /\ pending = {}) =>
        \A w1, w2 \in running :
            (w1 # w2 /\ running = {w1, w2}) =>
                paths_to_remove(CompletedBy(CompletedBy(phash_results, w1), w2))
                    = paths_to_remove(CompletedBy(CompletedBy(phash_results, w2), w1))

\* C24: while the pool of a deduplication run is working, the files inside
\* process_file are never more than the pool size; called with max_workers
\* zero or negative the pool size is between 1 and the ceiling 16, called
\* with a positive max_workers it is that number.
C24_WorkersWithinLimit ==
    dPc = "scan" =>
        /\ Cardinality(running) <= max_workers
        /\ dWorkersArg <= 0 => max_workers \in 1..POOL_CEILING
        /\ dWorkersArg > 0 => max_workers = dWorkersArg

\* C24 witness: a run called with max_workers <= 0 whose workers are all
\* busy while a submitted file waits for a free one.
C24_Witness ==
    /\ dPc = "scan"
    /\ dWorkersArg <= 0
    /\ Cardinality(running) = max_workers
    /\ pending # {}

\* the paths of a group that a returned run left in place although their
\* removal did not fail
LeftInPlace(run, h) == (run.paths[h] \cap DOMAIN run.after) \ run.failed

C26_DetailsRecordSourceAndRound ==
    \A i \in 1..Len(results.details) :
        /\ "api" \in DOMAIN results.details[i]
        /\ results.details[i].api = cleaned_urls[bAttempts[i][2]]
        /\ "round" \in DOMAIN results.details[i]
        /\ results.details[i].round = bAttempts[i][1] + 1

\* the step in which a run returns after it wrote its cache file
RunSaves == dPc = "scan" /\ dPc' = "done" /\ dLog'[Len(dLog')].saved

\* C27 as stated: the entries of the loaded cache whose file is not in the
\* scanned directory are in the cache file the run writes, as they were.
C27_StaleEntriesPersist ==
    [][RunSaves =>
        \A f \in DOMAIN cache :
            path_join(dDir, f) \notin DOMAIN disk =>
                f \in DOMAIN cacheFile' /\ cacheFile'[f] = cache[f]]_vars

\* the step in which a run returns without having written its cache file
RunReturnsUnsaved == dPc = "scan" /\ dPc' = "done" /\ ~dLog'[Len(dLog')].saved

\* the step in which a run raises to its caller
RunRaises == dPc = "scan" /\ dPc' = "aborted"

\* the filenames of the results the run inserted
ResultNames == { phash_results[i].filename : i \in 1..Len(phash_results) }

\* C27, amended: the cache file a run writes holds exactly the results the
\* run inserted, each under its filename, all of them of files the run
\* listed, and no entry of the loaded cache for a filename the run did not
\* list.  A run that raises leaves the cache file as it was, stale entries
\* included; a run that returns without having written it leaves it as it
\* was or without any entry; no other step changes the cache file.
C27_StaleEntriesDropped ==
    [][ /\ RunSaves =>
              /\ DOMAIN cacheFile' = ResultNames
              /\ \A i \in 1..Len(phash_results) :
                    cacheFile'[phash_results[i].filename] = phash_results[i].entry
              /\ DOMAIN cacheFile' \subseteq dFiles
              /\ \A f \in (DOMAIN cache) \ dFiles : f \notin DOMAIN cacheFile'
        /\ RunRaises => cacheFile' = cacheFile
        /\ RunReturnsUnsaved => (cacheFile' = cacheFile \/ DOMAIN cacheFile' = {})
        /\ ~(RunSaves \/ RunRaises \/ RunReturnsUnsaved) => cacheFile' = cacheFile
      ]_vars

\* C27 witness: the first run cached and removed a duplicate and wrote its
\* cache file; the second run wrote a cache file without that entry.
C27_Witness ==
    /\ Len(dLog) = 2
    /\ dPc = "done"
    /\ ~dLog[1].aborted /\ dLog[1].saved
    /\ ~dLog[2].aborted /\ dLog[2].saved
    /\ \E h \in DOMAIN dLog[1].groups :
          \E f \in dLog[1].groups[h] :
             /\ path_join(dLog[1].dir, f) \in DOMAIN dLog[1].before
             /\ path_join(dLog[1].dir, f) \notin DOMAIN dLog[1].after
             /\ f \notin DOMAIN cacheFile

\* the files a returned run removed
RemovedBy(run) == (DOMAIN run.before) \ (DOMAIN run.after)

\* C28: every file a deduplication run removed was directly inside the
\* directory the run was called on, whatever the cache file held, the cache
\* file of an earlier run on another directory included.
C28_RemovesOnlyInsideDirectory ==
    \A i \in 1..Len(dLog) :
        ~dLog[i].aborted => \A q \in RemovedBy(dLog[i]) : InDirectory(q, dLog[i].dir)

\* the path has one of the image extensions, in any case of letters
HasImageExtension(q) == str_lower(splitext_ext(q)) \in IMAGE_EXTENSIONS

\* the name of a file of the directory of the run
NameIn(run, q) == SubSeq(q, Len(run.dir) + 2, Len(q))

\* C30: a file of the scanned directory that a deduplication run removed
\* has an image extension, has content that gives a perceptual hash, and
\* belongs to a hash group of the run with at least two members.
C30_OnlyGroupedImagesRemoved ==
    \A i \in 1..Len(dLog) :
        ~dLog[i].aborted =>
            \A q \in RemovedBy(dLog[i]) :
                InDirectory(q, dLog[i].dir) =>
                    /\ HasImageExtension(q)
                    /\ TruePhash(dLog[i].before[q].content) # ""
                    /\ \E h \in DOMAIN dLog[i].groups :
                          /\ NameIn(dLog[i], q) \in dLog[i].groups[h]
                          /\ Cardinality(dLog[i].groups[h]) >= 2

\* C30 witness: a run removed a duplicate and left in the directory a file
\* without image extension whose content is a picture, a file with image
\* extension that cannot be decoded, and the only file of its hash.
C30_Witness ==
    \E i \in 1..Len(dLog) :
        /\ ~dLog[i].aborted
        /\ \E q \in RemovedBy(dLog[i]) : InDirectory(q, dLog[i].dir)
        /\ \E q \in DOMAIN dLog[i].after :
              /\ InDirectory(q, dLog[i].dir) /\ ~HasImageExtension(q)
              /\ TruePhash(dLog[i].after[q].content) # ""
        /\ \/ \E q \in DOMAIN dLog[i].after :
                 /\ InDirectory(q, dLog[i].dir) /\ HasImageExtension(q)
                 /\ TruePhash(dLog[i].after[q].content) = ""
           \/ \E h \in DOMAIN dLog[i].groups :
                 /\ Cardinality(dLog[i].groups[h]) = 1
                 /\ \A f \in dLog[i].groups[h] :
                       path_join(dLog[i].dir, f) \in DOMAIN dLog[i].after

\* the attempt of a batch ends as a failure in this step, at the fetch or
\* in the handling of a response that is not JSON
AttemptFailsDirectly == bPc = "fetching" /\ results'.failed = results.failed + 1

\* the download_image call of an attempt returns its failure in this step
AttemptDownloadFails ==
    bPc = "downloading" /\ dlPc = "fetching" /\ dlPc' = "done" /\ ~dlResult'.ok

\* C29: the step that handles the response of a batch attempt ending as a
\* failure leaves every file as it was: no file is added, removed or
\* changed, a file that existed at the content-addressed path included.
C29_FailedAttemptLeavesDirectory ==
    [][(AttemptFailsDirectly \/ AttemptDownloadFails) => disk' = disk]_vars

(***************************************************************************)
(* The file management methods: correct_file_extension,                    *)
(* batch_correct_extensions, move_file, classify_image_by_orientation,     *)
(* unblock_file and split_image_by_grid.  Paths are relative and in normal *)
(* form: no "." or ".." and no doubled separator, so that one file has one *)
(* path.  The two methods that loop over a directory are followed file by  *)
(* file; no other method runs while a loop is running.                     *)
(***************************************************************************)
MaxFileOps == 2

\* os.path.isdir(p)
isdir(dirs, p) == rstrip_slash(p) \in dirs

\* a file can be created or replaced at p: p names something in a
\* directory that exists, and no directory
creatable(dirs, p) ==
    /\ basename(p) # ""
    /\ ~isdir(dirs, p)
    /\ dirname(p) = "" \/ isdir(dirs, dirname(p))

\* os.makedirs(p, exist_ok=True) raises: there is no name, or a file
\* stands where a directory is wanted
makedirs_raises(files, p) ==
    \/ p = ""
    \/ \E d \in makedirs({}, p) : d \in DOMAIN files

\* q is p or lies below it
below(p, q) == q = p \/ str_startswith(q, p \o "/")

\* the path q, at or below src, after src became dst
rebase(q, src, dst) == dst \o SubSeq(q, Len(src) + 1, Len(q))

\* shutil.move of a file that got through
Moved == [kind |-> "ok", written |-> 0]

\* shutil.move(src, real_dst) of a file holding content, ending as `m`:
\*   "ok"            os.rename moved it, or raised and the copy and the
\*                   removal that replace it got through
\*   "fails"         os.rename raised and the copy raised before it opened
\*                   the target: nothing changes
\*   "copy_fails"    os.rename raised and the copy raised after it wrote
\*                   `written` bytes, any number short of all
\*   "unlink_fails"  os.rename raised, the copy was made and os.unlink
\*                   raised: the file is at both paths
MoveOutcomes(content) ==
    {Moved, [kind |-> "fails", written |-> 0], [kind |-> "unlink_fails", written |-> 0]}
        \cup { [kind |-> "copy_fails", written |-> k] : k \in 0..(Len(content) - 1) }

\* the ways this move can end while the file system may fail
PossibleMoves(content) ==
    IF writeFaults < MaxWriteFaults THEN MoveOutcomes(content) ELSE {Moved}

\* shutil.move of the file src to the path real_dst, which can be created
moved_file(files, src, real_dst, m, t) ==
    CASE m.kind = "ok" ->
            [q \in ((DOMAIN files) \ {src}) \cup {real_dst} |->
                IF q = real_dst THEN files[src] ELSE files[q]]
      [] m.kind = "copy_fails" ->
            write_file(files, real_dst, files[src].content,
                       [kind |-> "write_fails", written |-> m.written], t)
      [] m.kind = "unlink_fails" ->
            write_file(files, real_dst, files[src].content,
                       Written(files[src].content), files[src].mtime)
      [] OTHER -> files

\* shutil.move of the directory src, with all it holds, to real_dst
moved_tree(files, src, real_dst) ==
    [q \in { IF below(src, p) THEN rebase(p, src, real_dst) ELSE p : p \in DOMAIN files } |->
        IF below(real_dst, q) THEN files[rebase(q, real_dst, src)] ELSE files[q]]

\* the directories after that move; the copy that replaces a failing
\* os.rename makes the directories above real_dst
moved_dirs(dirs, src, real_dst) ==
    makedirs({ IF below(src, d) THEN rebase(d, src, real_dst) ELSE d : d \in dirs },
             real_dst)

\* shutil.move(src, dst): [files, dirs, raised].  A directory is moved
\* with all it holds or not at all.
shutil_move(files, dirs, src, dst, m, t) ==
    LET real_dst == IF isdir(dirs, dst)
                    THEN path_join(dst, basename(rstrip_slash(src)))
                    ELSE dst
        stays(raised) == [files |-> files, dirs |-> dirs, raised |-> raised]
    IN  IF isdir(dirs, dst) /\ rstrip_slash(src) = rstrip_slash(dst)
        THEN \* the directory is moved onto itself
             stays(FALSE)
        ELSE IF isdir(dirs, dst) /\ (real_dst \in DOMAIN files \/ isdir(dirs, real_dst))
        THEN \* "Destination path ... already exists"
             stays(TRUE)
        ELSE IF src \in DOMAIN files
        THEN IF src = real_dst THEN stays(m.kind # "ok")
             ELSE IF ~creatable(dirs, real_dst) THEN stays(TRUE)
             ELSE [files |-> moved_file(files, src, real_dst, m, t), dirs |-> dirs,
                   raised |-> m.kind # "ok"]
        ELSE IF isdir(dirs, src)
        THEN IF \/ below(rstrip_slash(src), real_dst)
                \/ makedirs_raises(files, real_dst)
                \/ m.kind # "ok"
             THEN stays(TRUE)
             ELSE [files |-> moved_tree(files, rstrip_slash(src), real_dst),
                   dirs |-> moved_dirs(dirs, rstrip_slash(src), real_dst),
                   raised |-> FALSE]
        ELSE stays(TRUE)

\* lines 758-761: the type the new name is made from, the sniffed one
\* before the decoder's; "" when neither gives one
corrected_type(content) ==
    IF _identify_file_type_by_magic(Slice(content, 0, 32)) # None
    THEN _identify_file_type_by_magic(Slice(content, 0, 32))
    ELSE get_image_info(content).file_type

\* lines 767-769: the path the file is moved to; target_dir "" is None
corrected_path(file_path, target_dir, content) ==
    path_join(IF target_dir # "" THEN target_dir ELSE dirname(file_path),
              get_image_info(content).md5 \o ExtensionFor(corrected_type(content)))

\* correct_file_extension(file_path, target_dir): [files, dirs, moved]
correct_file_extension(files, dirs, file_path, target_dir, m, t) ==
    LET stays == [files |-> files, dirs |-> dirs, moved |-> FALSE]
        to_dir == IF target_dir # "" THEN target_dir ELSE dirname(file_path)
    IN  IF file_path \notin DOMAIN files THEN stays
        ELSE IF corrected_type(files[file_path].content) = "" THEN stays
        ELSE IF corrected_path(file_path, target_dir, files[file_path].content) = file_path
        THEN stays
        ELSE IF makedirs_raises(files, to_dir) THEN stays
        ELSE LET r == shutil_move(files, makedirs(dirs, to_dir), file_path,
                                  corrected_path(file_path, target_dir,
                                                 files[file_path].content),
                                  m, t)
             IN  [files |-> r.files, dirs |-> r.dirs, moved |-> ~r.raised]

\* the outcomes the file system has for a move of this path
MovesOf(files, file_path) ==
    IF file_path \in DOMAIN files THEN PossibleMoves(files[file_path].content)
    ELSE {Moved}

\* str.endswith(suffix)
str_endswith(s, suffix) ==
    /\ Len(suffix) <= Len(s)
    /\ SubSeq(s, Len(s) - Len(suffix) + 1, Len(s)) = suffix

\* line 968
ORIENTATION_EXTENSIONS == {".png", ".jpg", ".jpeg", ".gif", ".bmp", ".webp", ".avif"}

\* line 968: the file is taken for a picture
classified(filename) ==
    \E e \in ORIENTATION_EXTENSIONS : str_endswith(str_lower(filename), e)

\* shutil.copy2(src, dst) of an existing file, the copy ending as `w`: the
\* copy has the content and the modification time of the source
copy2(files, dirs, src, dst, w, t) ==
    LET real_dst == IF isdir(dirs, dst) THEN path_join(dst, basename(src)) ELSE dst
    IN  IF real_dst = src \/ ~creatable(dirs, real_dst) THEN files
        ELSE write_file(files, real_dst, files[src].content, w,
                        IF w.kind = "ok" THEN files[src].mtime ELSE t)

\* lines 970-982: one pass of the loop of classify_image_by_orientation
classify_file(files, dirs, source_dir, horizontal_dir, vertical_dir, filename, w, t) ==
    IF path_join(source_dir, filename) \notin DOMAIN files THEN files
    ELSE copy2(files, dirs, path_join(source_dir, filename),
               path_join(IF get_image_info(files[path_join(source_dir, filename)].content)
                                .orientation = "horizontal"
                         THEN horizontal_dir ELSE vertical_dir,
                         filename),
               w, t)

\* the outcomes the file system has for a copy of this path
CopiesOf(files, file_path) ==
    IF file_path \in DOMAIN files THEN PossibleWrites(files[file_path].content)
    ELSE {Written(<<>>)}

\* line 993
ZONE_STREAM == ":Zone.Identifier"

\* unblock_file(file_path), the removal ending as rm
unblock_file(files, file_path, rm) ==
    IF path_exists(files, file_path \o ZONE_STREAM)
    THEN remove_file(files, file_path \o ZONE_STREAM, rm)
    ELSE files

Digits == "0123456789"

\* str(n) for n >= 0
RECURSIVE str_int(_)
str_int(n) ==
    IF n < 10 THEN SubSeq(Digits, n + 1, n + 1)
    ELSE str_int(n \div 10) \o SubSeq(Digits, (n % 10) + 1, (n % 10) + 1)

\* line 1107: the path of the cell of that index
cell_path(output_dir, output_prefix, index) ==
    path_join(output_dir,
              output_prefix \o "_" \o (IF index < 10 THEN "0" ELSE "") \o str_int(index)
                  \o ".png")

\* cropped.save(output_path): the PNG stream of a cell of that size, a
\* buffer the decoder reads as a picture of that size; the stream of a
\* cell without pixels is never completed
encoded_png(w, h) ==
    PNG_SIG \o << CASE w = 2 /\ h = 1 -> 1
                    [] w = 1 /\ h = 2 -> 2
                    [] w = 2 /\ h = 2 -> 3
                    [] w = 1 /\ h = 1 -> 14
                    [] OTHER -> 0 >>

\* range(rows) x range(cols): the number of cells
cell_count(rows, cols) == IF rows > 0 /\ cols > 0 THEN rows * cols ELSE 0

\* lines 1095-1109: the cells 1..n saved one after the other, the save of
\* cell `at` ending as w (at = 0: every save got through)
RECURSIVE saved_cells(_, _, _, _, _, _, _, _)
saved_cells(files, output_dir, output_prefix, stream, n, at, w, t) ==
    IF n = 0 THEN files
    ELSE IF at # 0 /\ n > at
    THEN saved_cells(files, output_dir, output_prefix, stream, at, at, w, t)
    ELSE write_file(saved_cells(files, output_dir, output_prefix, stream, n - 1, at, w, t),
                    cell_path(output_dir, output_prefix, n), stream,
                    IF n = at THEN w ELSE Written(stream), t)

\* split_image_by_grid(image_path, rows, cols, output_dir, output_prefix):
\* [files, dirs, raised, paths].  Image.open raises on a missing file and
\* on a buffer no decoder takes; the first crop raises on a buffer whose
\* pixel data do not load; the save of a cell without pixels raises.
split_image_by_grid(files, dirs, image_path, rows, cols, output_dir, output_prefix, at, w, t) ==
    LET raises(d) == [files |-> files, dirs |-> d, raised |-> TRUE, paths |-> <<>>]
        o == PilOutcome(files[image_path].content)
        n == cell_count(rows, cols)
        stream == encoded_png(o.width \div cols, o.height \div rows)
    IN  IF image_path \notin DOMAIN files THEN raises(dirs)
        ELSE IF o.stage = "open" THEN raises(dirs)
        ELSE IF cols = 0 \/ rows = 0 THEN raises(dirs)
        ELSE IF makedirs_raises(files, output_dir) THEN raises(dirs)
        ELSE IF n = 0
        THEN [files |-> files, dirs |-> makedirs(dirs, output_dir), raised |-> FALSE,
              paths |-> <<>>]
        ELSE IF o.stage # "ok" THEN raises(makedirs(dirs, output_dir))
        ELSE [files |-> saved_cells(files, output_dir, output_prefix, stream, n, at, w, t),
              dirs |-> makedirs(dirs, output_dir),
              raised |-> at # 0,
              paths |-> IF at # 0 THEN <<>>
                        ELSE [i \in 1..n |-> cell_path(output_dir, output_prefix, i)]]

\* the cells of the picture at image_path hold pixels
has_pixels(files, image_path, rows, cols) ==
    /\ PilOutcome(files[image_path].content).width \div cols > 0
    /\ PilOutcome(files[image_path].content).height \div rows > 0

\* the cell whose save raises, and how: none, the first one when the cells
\* have no pixels, and any one while the file system may fail
SaveFaults(files, image_path, rows, cols) ==
    LET o == PilOutcome(files[image_path].content)
        n == cell_count(rows, cols)
        stream == encoded_png(o.width \div cols, o.height \div rows)
        failures == WriteOutcomes(stream) \ {Written(stream)}
    IN  IF image_path \notin DOMAIN files \/ n = 0 THEN {<<0, Written(<<>>)>>}
        ELSE IF o.stage # "ok" THEN {<<0, Written(<<>>)>>}
        ELSE IF ~has_pixels(files, image_path, rows, cols)
        THEN {1} \X failures
        ELSE {<<0, Written(stream)>>}
                \cup (IF writeFaults < MaxWriteFaults THEN (1..n) \X failures ELSE {})

\* a call of a file management method ended
ended(op, raised, paths) == [op |-> op, raised |-> raised, paths |-> paths]

\* the files of the scenarios: a file of the Zone.Identifier stream, a GIF
\* picture of two by two pixels with a palette
ZONE_TEXT == <<91, 90>>
GIF_SQUARE == GIF_SIG \o <<3>>

\* the file systems of the scenarios: pictures under names of their own, a
\* text-named copy of one of them and its Zone.Identifier stream; and
\* pictures, one of them decodable only after a repair, one that does not
\* load, one under the name correct_file_extension gives it, beside a file
\* outside every directory
FileDisks ==
    { [q \in {"d1/a.jpg", "d1/b.JPG", "d1/c.png", "d1/n.txt", "d1/n.txt" \o ZONE_STREAM} |->
          [content |-> CASE q = "d1/a.jpg" -> OTHER_HASH [] q = "d1/b.JPG" -> MID
                         [] q = "d1/c.png" -> PNG_H1 [] q = "d1/n.txt" -> MID
                         [] OTHER -> ZONE_TEXT,
           mtime |-> 1]],
      [q \in {"d1/e.gif", "d1/r.jpg", "d1/bad.jpg", "x.png",
              "d1/" \o md5_upper(MID) \o ".jpg"} |->
          [content |-> CASE q = "d1/e.gif" -> GIF_SQUARE [] q = "d1/r.jpg" -> BIG_REPAIRED
                         [] q = "d1/bad.jpg" -> JPEG_BAD [] q = "x.png" -> PNG_H1
                         [] OTHER -> MID,
           mtime |-> 1]] }

\* the arguments (src, dst) of the move_file calls
MoveArgs ==
    { <<"d1/a.jpg", "d1/z.jpg">>, <<"d1/a.jpg", "d1/b.JPG">>, <<"d1/b.JPG", "d1">>,
      <<"x.png", "d1">>, <<"d1/q.jpg", "d1/z.jpg">>, <<"d1/b.JPG", "d9/z.jpg">>,
      <<"d1", "d3">> }

\* the arguments (file_path, target_dir) of the correct_file_extension
\* calls; "" is target_dir=None
CorrectArgs ==
    { <<"d1/n.txt", "">>, <<"d1/a.jpg", "d2">>, <<"x.png", "">>, <<"d1/r.jpg", "">>,
      <<"d1/n.txt" \o ZONE_STREAM, "">>, <<"d1/" \o md5_upper(MID) \o ".jpg", "">> }

\* the arguments (directory, target_dir) of the batch_correct_extensions
\* calls
BatchCorrectArgs == { <<"d1", "">>, <<"d1", "d2">> }

\* the arguments (source_dir, horizontal_dir, vertical_dir) of the
\* classify_image_by_orientation calls; "" is None
ClassifyArgs == { <<"d1", "", "">>, <<"d1", "d2", "d1">> }

\* the arguments of the unblock_file calls
UnblockArgs == {"d1/n.txt", "d1/a.jpg"}

\* the arguments (image_path, rows, cols, output_dir, output_prefix) of
\* the split_image_by_grid calls
SplitArgs ==
    { <<"d1/e.gif", 2, 1, "output", "split">>, <<"d1/b.JPG", 1, 2, "out", "p">>,
      <<"d1/b.JPG", 2, 1, "out", "p">>, <<"d1/e.gif", 0, 1, "out", "p">>,
      <<"d1/e.gif", -1, 1, "out", "p">>, <<"d1/bad.jpg", 1, 1, "out", "p">>,
      <<"d1/n.txt" \o ZONE_STREAM, 1, 1, "out", "p">> }

\* a caller of the class may call a file management method
FilesCallable ==
    /\ fmPc = "idle"
    /\ Len(fmLog) < MaxFileOps

\* move_file(src, dst)
MoveFile ==
    /\ FilesCallable
    /\ \E a \in MoveArgs :
       \E m \in MovesOf(disk, a[1]) :
       \E r \in {shutil_move(disk, folders, a[1], a[2], m, now)} :
          /\ (m.kind # "ok") => r # shutil_move(disk, folders, a[1], a[2], Moved, now)
          /\ FaultCounted(m)
          /\ disk' = r.files
          /\ folders' = r.dirs
    /\ fmLog' = Append(fmLog, ended("move_file", FALSE, <<>>))
    /\ UNCHANGED <<now, fmPc, fmArgs, fmQueue>>
    /\ UNCHANGED <<sniffVars, infoVars, fetchVars, dlVars, batchVars, dedupVars>>

\* correct_file_extension(file_path, target_dir)
CorrectFileExtension ==
    /\ FilesCallable
    /\ \E a \in CorrectArgs :
       \E m \in MovesOf(disk, a[1]) :
       \E r \in {correct_file_extension(disk, folders, a[1], a[2], m, now)} :
          /\ (m.kind # "ok") =>
                r # correct_file_extension(disk, folders, a[1], a[2], Moved, now)
          /\ FaultCounted(m)
          /\ disk' = r.files
          /\ folders' = r.dirs
    /\ fmLog' = Append(fmLog, ended("correct_file_extension", FALSE, <<>>))
    /\ UNCHANGED <<now, fmPc, fmArgs, fmQueue>>
    /\ UNCHANGED <<sniffVars, infoVars, fetchVars, dlVars, batchVars, dedupVars>>

\* line 779: batch_correct_extensions(directory, target_dir) lists
\* the directory
BatchCorrectCall ==
    /\ FilesCallable
    /\ \E a \in BatchCorrectArgs :
          /\ fmArgs' = a
          /\ fmQueue' = list_files_in_directory(disk, a[1])
    /\ fmPc' = "correcting"
    /\ UNCHANGED <<diskVars, fmLog>>
    /\ UNCHANGED <<sniffVars, infoVars, fetchVars, dlVars, batchVars, dedupVars>>

\* lines 780-782: one pass of the loop, in the order os.scandir gave
BatchCorrectStep ==
    /\ fmPc = "correcting"
    /\ \E f \in fmQueue :
       \E m \in MovesOf(disk, path_join(fmArgs[1], f)) :
       \E r \in {correct_file_extension(disk, folders, path_join(fmArgs[1], f),
                                        fmArgs[2], m, now)} :
          /\ (m.kind # "ok") =>
                r # correct_file_extension(disk, folders, path_join(fmArgs[1], f),
                                           fmArgs[2], Moved, now)
          /\ FaultCounted(m)
          /\ disk' = r.files
          /\ folders' = r.dirs
          /\ fmQueue' = fmQueue \ {f}
    /\ UNCHANGED <<now, fmPc, fmArgs, fmLog>>
    /\ UNCHANGED <<sniffVars, infoVars, fetchVars, dlVars, batchVars, dedupVars>>

\* the loop of batch_correct_extensions is through
BatchCorrectReturn ==
    /\ fmPc = "correcting"
    /\ fmQueue = {}
    /\ fmPc' = "idle"
    /\ fmArgs' = <<>>
    /\ fmLog' = Append(fmLog, ended("batch_correct_extensions", FALSE, <<>>))
    /\ UNCHANGED <<diskVars, fmQueue>>
    /\ UNCHANGED <<sniffVars, infoVars, fetchVars, dlVars, batchVars, dedupVars>>

\* lines 962-963: the directories the pictures are copied to
horizontal_of(a) == IF a[2] # "" THEN a[2] ELSE path_join(a[1], "horizontal")
vertical_of(a) == IF a[3] # "" THEN a[3] ELSE path_join(a[1], "vertical")

\* lines 962-968: classify_image_by_orientation(source_dir, horizontal_dir,
\* vertical_dir) makes the two directories and lists the source directory;
\* the files the loop passes over are left out here.  Where a directory
\* cannot be made the call raises.
ClassifyCall ==
    /\ FilesCallable
    /\ \E a \in ClassifyArgs :
          IF makedirs_raises(disk, horizontal_of(a)) \/ makedirs_raises(disk, vertical_of(a))
          THEN /\ folders' = IF makedirs_raises(disk, horizontal_of(a)) THEN folders
                             ELSE makedirs(folders, horizontal_of(a))
               /\ fmLog' = Append(fmLog, ended("classify_image_by_orientation", TRUE, <<>>))
               /\ UNCHANGED <<fmPc, fmArgs, fmQueue>>
          ELSE /\ folders' = makedirs(makedirs(folders, horizontal_of(a)), vertical_of(a))
               /\ fmPc' = "classifying"
               /\ fmArgs' = <<a[1], horizontal_of(a), vertical_of(a)>>
               /\ fmQueue' = { f \in list_files_in_directory(disk, a[1]) : classified(f) }
               /\ UNCHANGED fmLog
    /\ UNCHANGED <<disk, now, writeFaults>>
    /\ UNCHANGED <<sniffVars, infoVars, fetchVars, dlVars, batchVars, dedupVars>>

\* lines 967-982: one pass of the loop, in the order os.scandir gave
ClassifyStep ==
    /\ fmPc = "classifying"
    /\ \E f \in fmQueue :
       \E w \in CopiesOf(disk, path_join(fmArgs[1], f)) :
       \E r \in {classify_file(disk, folders, fmArgs[1], fmArgs[2], fmArgs[3], f, w, now)} :
          /\ (w.kind # "ok") =>
                r # classify_file(disk, folders, fmArgs[1], fmArgs[2], fmArgs[3], f,
                                  Written(disk[path_join(fmArgs[1], f)].content), now)
          /\ FaultCounted(w)
          /\ disk' = r
          /\ fmQueue' = fmQueue \ {f}
    /\ UNCHANGED <<folders, now, fmPc, fmArgs, fmLog>>
    /\ UNCHANGED <<sniffVars, infoVars, fetchVars, dlVars, batchVars, dedupVars>>

\* the loop of classify_image_by_orientation is through
ClassifyReturn ==
    /\ fmPc = "classifying"
    /\ fmQueue = {}
    /\ fmPc' = "idle"
    /\ fmArgs' = <<>>
    /\ fmLog' = Append(fmLog, ended("classify_image_by_orientation", FALSE, <<>>))
    /\ UNCHANGED <<diskVars, fmQueue>>
    /\ UNCHANGED <<sniffVars, infoVars, fetchVars, dlVars, batchVars, dedupVars>>

\* unblock_file(file_path)
UnblockFile ==
    /\ FilesCallable
    /\ \E p \in UnblockArgs, rm \in BOOLEAN :
          /\ ~rm => path_exists(disk, p \o ZONE_STREAM)
          /\ disk' = unblock_file(disk, p, rm)
    /\ fmLog' = Append(fmLog, ended("unblock_file", FALSE, <<>>))
    /\ UNCHANGED <<folders, now, writeFaults, fmPc, fmArgs, fmQueue>>
    /\ UNCHANGED <<sniffVars, infoVars, fetchVars, dlVars, batchVars, dedupVars>>

\* split_image_by_grid(image_path, rows, cols, output_dir, output_prefix)
SplitImageByGrid ==
    /\ FilesCallable
    /\ \E a \in SplitArgs :
       \E fault \in SaveFaults(disk, a[1], a[2], a[3]) :
       \E r \in {split_image_by_grid(disk, folders, a[1], a[2], a[3], a[4], a[5],
                                     fault[1], fault[2], now)} :
          /\ writeFaults' = IF fault[1] # 0 /\ has_pixels(disk, a[1], a[2], a[3])
                            THEN writeFaults + 1 ELSE writeFaults
          /\ disk' = r.files
          /\ folders' = r.dirs
          /\ fmLog' = Append(fmLog, ended("split_image_by_grid", r.raised, r.paths))
    /\ UNCHANGED <<now, fmPc, fmArgs, fmQueue>>
    /\ UNCHANGED <<sniffVars, infoVars, fetchVars, dlVars, batchVars, dedupVars>>

FilesInit ==
    /\ SniffIdle
    /\ InfoIdle
    /\ FetchIdle
    /\ disk \in FileDisks
    /\ folders = parents(disk)
    /\ now = 2
    /\ writeFaults = 0
    /\ DlIdle
    /\ BatchIdle
    /\ DedupIdle
    /\ FilesIdle

FilesNext ==
    \/ MoveFile
    \/ CorrectFileExtension
    \/ BatchCorrectCall
    \/ BatchCorrectStep
    \/ BatchCorrectReturn
    \/ ClassifyCall
    \/ ClassifyStep
    \/ ClassifyReturn
    \/ UnblockFile
    \/ SplitImageByGrid

SpecFiles == FilesInit /\ [][FilesNext]_vars

\* every file lies in a directory that exists
FilesLieInFolders ==
    \A q \in DOMAIN disk : dirname(q) = "" \/ dirname(q) \in folders

====
